---- MODULE Spec2Model ----
(***************************************************************************)
(* Order submission pipeline, risk manager, bot state persistence and      *)
(* broker reconciliation of ai-trader, as a state machine.                 *)
(*                                                                         *)
(* Decimal amounts are exact rationals <<n, d>> (d > 0, lowest terms) in   *)
(* US dollars.  A process is one run of the bot: it loads the state file,  *)
(* reconciles with the broker, then submits signals through the pipeline,  *)
(* one step per I/O call, and may crash between any two steps.             *)
(***************************************************************************)
EXTENDS Integers, Sequences, FiniteSets, TLC

VARIABLES
    config,      \* Config snapshot of the deployment
    file,        \* out/state.json: absent, partially written, or a saved BotState
    venue,       \* the broker: orders, client_order_map, positions
    orders_csv,  \* order audit sink (client_order_ids written)
    fills_csv,   \* fill audit sink
    trades_csv,  \* trade audit sink
    pc,          \* per process: position in run_trading_loop / submit_signal_order
    state,       \* per process: BotState in memory
    rm,          \* per process: RiskManager (positions, daily_pnl)
    call,        \* per process: locals of the current submit_signal_order call
    prev,        \* history: the last completed submit_signal_order call
    recon,       \* per process: the reconciliation pass of this run and its result
    durable,     \* history: the state file as the last completed save left it
    risk,        \* history: the last direct call of a RiskManager method
    session,     \* session loss limit and session PnL of the directly driven RiskManager
    cycle        \* the iteration of the trading loop: symbols still to evaluate

vars == <<config, file, venue, orders_csv, fills_csv, trades_csv,
          pc, state, rm, call, prev, recon, durable, risk, session, cycle>>

----------------------------------------------------------------------------
(* Bounds of the model. *)

\* Orders the venue accepts before it refuses every further submission.
MaxOrders == 2

\* Fills a directly driven RiskManager is told of.
MaxUpdates == 3

\* Processes (runs of the bot) that may be alive at the same time in SpecConc.
Procs == {"p1", "p2"}

\* The one process of the single-lineage specification Spec.
Lineage == {"p1"}

----------------------------------------------------------------------------
(* Decimal arithmetic: exact rationals. *)

Abs(x) == IF x < 0 THEN -x ELSE x

RECURSIVE Gcd(_, _)
Gcd(a, b) == IF b = 0 THEN a ELSE Gcd(b, a % b)

Rat(n, d) ==
    LET s == IF d < 0 THEN -1 ELSE 1
        g == Gcd(Abs(n), Abs(d))
    IN  <<(s * n) \div g, (s * d) \div g>>

D(n) == <<n, 1>>
RAdd(a, b) == Rat(a[1] * b[2] + b[1] * a[2], a[2] * b[2])
RSub(a, b) == Rat(a[1] * b[2] - b[1] * a[2], a[2] * b[2])
RMul(a, b) == Rat(a[1] * b[1], a[2] * b[2])
RDiv(a, b) == Rat(a[1] * b[2], a[2] * b[1])
RNeg(a) == <<-a[1], a[2]>>
RAbs(a) == <<Abs(a[1]), a[2]>>
RLt(a, b) == a[1] * b[2] < b[1] * a[2]
RLe(a, b) == a[1] * b[2] <= b[1] * a[2]
RMin(a, b) == IF RLe(a, b) THEN a ELSE b
RMax(a, b) == IF RLe(a, b) THEN b ELSE a

\* A Decimal | None that is None.
None == <<>>

\* An empty dict.
EmptyMap == [x \in {} |-> None]

----------------------------------------------------------------------------
(* Config: the configurations under test (src/app/config.py). *)

BaseConfig ==
    [ max_positions          |-> 1,
      max_order_quantity     |-> 100,
      max_daily_loss         |-> D(1),
      max_order_notional     |-> D(1000),
      max_positions_notional |-> D(2001),
      allowed_symbols        |-> {"AAPL"},
      use_limit_orders       |-> TRUE,
      max_spread_bps         |-> D(20),
      min_edge_bps           |-> D(2),
      symbol_whitelist       |-> {},
      symbol_blacklist       |-> {},
      dry_run                |-> FALSE ]

\* Limit orders with a minimum edge and room to sell what is held; market orders
\* (no edge check) with an exposure limit one position exhausts; a dry run
\* with limit orders and no minimum edge.
LimitConfig == BaseConfig
MarketConfig ==
    [BaseConfig EXCEPT !.use_limit_orders = FALSE, !.max_positions_notional = D(1999)]
DryRunConfig == [BaseConfig EXCEPT !.dry_run = TRUE, !.min_edge_bps = D(0)]

Configs == {LimitConfig, MarketConfig, DryRunConfig}

----------------------------------------------------------------------------
(* Inputs. *)

Symbols == {"AAPL", "XYZ"}
Sides == {"buy", "sell"}

\* datetime values <<second, microsecond>>.
Timestamps == {<<1, 0>>, <<1, 500000>>}

SignalPrices == {None, D(100), D(250)}
Quantities == {0, 10, 101}

Signals ==
    [symbol : Symbols, side : Sides, timestamp : Timestamps, price : SignalPrices]

\* Quotes <<bid, ask>> the venue may return from get_quote.
Quotes ==
    { <<Rat(999, 10), Rat(1001, 10)>>,        \* spread exactly 20 bps
      <<D(99), D(101)>>,                      \* spread 200 bps
      <<Rat(99996, 1000), Rat(100004, 1000)>> \* spread 0.8 bps
    }

----------------------------------------------------------------------------
(* src/app/models.py : Quote *)

QuoteMid(q) == RDiv(RAdd(q[1], q[2]), D(2))
QuoteSpread(q) == RSub(q[2], q[1])
QuoteSpreadBps(q) ==
    IF QuoteMid(q) = D(0) THEN D(0)
    ELSE RMul(RDiv(QuoteSpread(q), QuoteMid(q)), D(10000))
ExpectedEntryPrice(q, side) == IF side = "buy" THEN q[2] ELSE q[1]

----------------------------------------------------------------------------
(* src/app/state.py *)

\* strftime("%Y%m%d%H%M%S"): second precision, the microsecond is dropped.
FormatTimestamp(ts) == ts[1]

build_client_order_id(symbol, side, signal_timestamp, strategy_name) ==
    <<strategy_name, symbol, side, FormatTimestamp(signal_timestamp)>>

\* A str | None that is None.
NoDate == ""

\* BotState(run_id="initial") with the given keys: no PnL history, no trading day.
BotState(keys) ==
    [ run_id |-> "initial", submitted_client_order_ids |-> keys,
      daily_realized_pnl |-> EmptyMap, daily_date |-> NoDate ]

\* get_today_date_eastern(): the trading day of the run, and the day before.
Today == "2024-01-15"
Yesterday == "2024-01-14"

get_daily_realized_pnl(st, date_key) ==
    IF date_key \in DOMAIN st.daily_realized_pnl
    THEN st.daily_realized_pnl[date_key]
    ELSE D(0)

\* Contents of the state file.  open(state_file, "w") truncates the file, and
\* json.dump then writes the document: in between the file is no JSON document.
\* A file may also be unreadable (open raises) or hold JSON that is no BotState.
FileAbsent == [kind |-> "absent", data |-> BotState({})]
FilePartial == [kind |-> "partial", data |-> BotState({})]
FileUnreadable == [kind |-> "unreadable", data |-> BotState({})]
FileCorrupt == [kind |-> "corrupt", data |-> BotState({})]
FileJson(st) == [kind |-> "json", data |-> st]

\* The state load_state starts from when there is nothing to read.
FreshState == [BotState({}) EXCEPT !.daily_date = Today]

\* open(state_file), json.load(f) or BotState(**data) raises.
ReadRaises(f) == f.kind \in {"partial", "unreadable", "corrupt"}

LoadResult(raised, st) == [raised |-> raised, state |-> st]

\* A load_state whose except branch lets the error out.
CaughtReadError_Reraised(f) == LoadResult(TRUE, BotState({}))

\* except Exception: the state is corrupted, start fresh.
CaughtReadError(f) == LoadResult(FALSE, FreshState)

\* load_state, with whether it raised.
LoadOutcome(f) ==
    IF f.kind = "absent"
    THEN LoadResult(FALSE, FreshState)
    ELSE IF ReadRaises(f)
    THEN CaughtReadError(f)
    ELSE LoadResult(FALSE, [f.data EXCEPT !.daily_date = Today])

load_state(f) == LoadOutcome(f).state

----------------------------------------------------------------------------
(* src/risk/manager.py : RiskManager *)

RiskCheckResult(passed, reason) == [passed |-> passed, reason |-> reason]

\* RiskManager.__init__: no positions, the daily PnL handed in.
RiskManager(daily_realized_pnl) ==
    [positions |-> EmptyMap, daily_pnl |-> daily_realized_pnl]

Position(quantity, avg_price) == [quantity |-> quantity, avg_price |-> avg_price]

\* A check_signal whose position limit counts only signals that open a position.
check_signal_OpeningOnly(r, cfg, signal) ==
    IF signal.symbol \notin cfg.allowed_symbols
    THEN RiskCheckResult(FALSE, "not in allowlist")
    ELSE IF signal.side = "buy"
            /\ signal.symbol \notin DOMAIN r.positions
            /\ Cardinality(DOMAIN r.positions) >= cfg.max_positions
    THEN RiskCheckResult(FALSE, "Max positions reached")
    ELSE IF RLe(r.daily_pnl, RNeg(cfg.max_daily_loss))
    THEN RiskCheckResult(FALSE, "Daily loss limit exceeded")
    ELSE RiskCheckResult(TRUE, "All checks passed")

\* A check_signal whose kill switch trips only beyond the limit.
check_signal_LossStrict(r, cfg, signal) ==
    IF signal.symbol \notin cfg.allowed_symbols
    THEN RiskCheckResult(FALSE, "not in allowlist")
    ELSE IF signal.side = "buy"
            /\ Cardinality(DOMAIN r.positions) >= cfg.max_positions
    THEN RiskCheckResult(FALSE, "Max positions reached")
    ELSE IF RLt(r.daily_pnl, RNeg(cfg.max_daily_loss))
    THEN RiskCheckResult(FALSE, "Daily loss limit exceeded")
    ELSE RiskCheckResult(TRUE, "All checks passed")

check_signal(r, cfg, signal) ==
    IF signal.symbol \notin cfg.allowed_symbols
    THEN RiskCheckResult(FALSE, "not in allowlist")
    ELSE IF signal.side = "buy"
            /\ Cardinality(DOMAIN r.positions) >= cfg.max_positions
    THEN RiskCheckResult(FALSE, "Max positions reached")
    ELSE IF RLe(r.daily_pnl, RNeg(cfg.max_daily_loss))
    THEN RiskCheckResult(FALSE, "Daily loss limit exceeded")
    ELSE RiskCheckResult(TRUE, "All checks passed")

\* A quantity check with the ceiling only.
check_order_quantity_CeilingOnly(cfg, quantity) ==
    IF quantity > cfg.max_order_quantity
    THEN RiskCheckResult(FALSE, "exceeds max")
    ELSE RiskCheckResult(TRUE, "Quantity check passed")

check_order_quantity(cfg, quantity) ==
    IF quantity > cfg.max_order_quantity
    THEN RiskCheckResult(FALSE, "exceeds max")
    ELSE IF quantity <= 0
    THEN RiskCheckResult(FALSE, "Order quantity must be positive")
    ELSE RiskCheckResult(TRUE, "Quantity check passed")

check_order_notional(cfg, quantity, price) ==
    LET notional == RAbs(RMul(D(quantity), price))
    IN  IF RLt(cfg.max_order_notional, notional)
        THEN RiskCheckResult(FALSE, "exceeds limit")
        ELSE RiskCheckResult(TRUE, "Notional check passed")

RECURSIVE SumExposure(_, _)
SumExposure(positions, syms) ==
    IF syms = {} THEN D(0)
    ELSE LET s == CHOOSE x \in syms : TRUE
         IN  RAdd(RMul(D(Abs(positions[s].quantity)), positions[s].avg_price),
                  SumExposure(positions, syms \ {s}))

get_current_exposure(r) == SumExposure(r.positions, DOMAIN r.positions)

\* An exposure check that already rejects a total equal to the limit.
check_positions_exposure_AtLimit(r, cfg, new_order_quantity, new_order_price) ==
    LET current_exposure == get_current_exposure(r)
        new_order_notional == RAbs(RMul(D(new_order_quantity), new_order_price))
        total_exposure == RAdd(current_exposure, new_order_notional)
    IN  IF RLe(cfg.max_positions_notional, total_exposure)
        THEN RiskCheckResult(FALSE, "exceeds limit")
        ELSE RiskCheckResult(TRUE, "Exposure check passed")

check_positions_exposure(r, cfg, new_order_quantity, new_order_price) ==
    LET current_exposure == get_current_exposure(r)
        new_order_notional == RAbs(RMul(D(new_order_quantity), new_order_price))
        total_exposure == RAdd(current_exposure, new_order_notional)
    IN  IF RLt(cfg.max_positions_notional, total_exposure)
        THEN RiskCheckResult(FALSE, "exceeds limit")
        ELSE RiskCheckResult(TRUE, "Exposure check passed")

\* The map m without key k / with key k bound to v.
MapDel(m, k) == [x \in DOMAIN m \ {k} |-> m[x]]
MapPut(m, k, v) == [x \in DOMAIN m \cup {k} |-> IF x = k THEN v ELSE m[x]]

\* An update_position that keeps a closed position, at quantity zero.
update_position_KeepsClosed(r, symbol, quantity, price) ==
    IF symbol \in DOMAIN r.positions
    THEN LET pos == r.positions[symbol]
             old_qty == pos.quantity
             new_qty == old_qty + quantity
             realized_pnl == RMul(RSub(price, pos.avg_price), D(Abs(quantity)))
         IN  IF new_qty = 0
             THEN [positions |-> MapPut(r.positions, symbol,
                                        Position(new_qty, pos.avg_price)),
                   daily_pnl |-> RAdd(r.daily_pnl, realized_pnl)]
             ELSE IF new_qty > 0
             THEN IF old_qty > 0 /\ quantity > 0
                  THEN LET total_cost == RAdd(RMul(pos.avg_price, D(old_qty)),
                                              RMul(price, D(quantity)))
                       IN  [r EXCEPT !.positions = MapPut(r.positions, symbol,
                               Position(new_qty, RDiv(total_cost, D(new_qty))))]
                  ELSE IF old_qty > 0 /\ quantity < 0
                  THEN [positions |-> MapPut(r.positions, symbol,
                                             Position(new_qty, pos.avg_price)),
                        daily_pnl |-> RAdd(r.daily_pnl, realized_pnl)]
                  ELSE r
             ELSE r
    ELSE IF quantity > 0
         THEN [r EXCEPT !.positions =
                  MapPut(r.positions, symbol, Position(quantity, price))]
         ELSE r

\* An update_position for which a partial sale realizes nothing.
update_position_ReducingRealizesNothing(r, symbol, quantity, price) ==
    IF symbol \in DOMAIN r.positions
    THEN LET pos == r.positions[symbol]
             old_qty == pos.quantity
             new_qty == old_qty + quantity
             realized_pnl == RMul(RSub(price, pos.avg_price), D(Abs(quantity)))
         IN  IF new_qty = 0
             THEN [positions |-> MapDel(r.positions, symbol),
                   daily_pnl |-> RAdd(r.daily_pnl, realized_pnl)]
             ELSE IF new_qty > 0
             THEN IF old_qty > 0 /\ quantity > 0
                  THEN LET total_cost == RAdd(RMul(pos.avg_price, D(old_qty)),
                                              RMul(price, D(quantity)))
                       IN  [r EXCEPT !.positions = MapPut(r.positions, symbol,
                               Position(new_qty, RDiv(total_cost, D(new_qty))))]
                  ELSE IF old_qty > 0 /\ quantity < 0
                  THEN [r EXCEPT !.positions = MapPut(r.positions, symbol,
                               Position(new_qty, pos.avg_price))]
                  ELSE r
             ELSE r
    ELSE IF quantity > 0
         THEN [r EXCEPT !.positions =
                  MapPut(r.positions, symbol, Position(quantity, price))]
         ELSE r

\* An update_position that books a short position for what is oversold.
update_position_GoesShort(r, symbol, quantity, price) ==
    IF symbol \in DOMAIN r.positions
    THEN LET pos == r.positions[symbol]
             old_qty == pos.quantity
             new_qty == old_qty + quantity
             realized_pnl == RMul(RSub(price, pos.avg_price), D(Abs(quantity)))
         IN  IF new_qty = 0
             THEN [positions |-> MapDel(r.positions, symbol),
                   daily_pnl |-> RAdd(r.daily_pnl, realized_pnl)]
             ELSE IF new_qty > 0
             THEN IF old_qty > 0 /\ quantity > 0
                  THEN LET total_cost == RAdd(RMul(pos.avg_price, D(old_qty)),
                                              RMul(price, D(quantity)))
                       IN  [r EXCEPT !.positions = MapPut(r.positions, symbol,
                               Position(new_qty, RDiv(total_cost, D(new_qty))))]
                  ELSE IF old_qty > 0 /\ quantity < 0
                  THEN [positions |-> MapPut(r.positions, symbol,
                                             Position(new_qty, pos.avg_price)),
                        daily_pnl |-> RAdd(r.daily_pnl, realized_pnl)]
                  ELSE r
             ELSE [positions |-> MapPut(r.positions, symbol, Position(new_qty, price)),
                   daily_pnl |-> RAdd(r.daily_pnl,
                                      RMul(RSub(price, pos.avg_price), D(old_qty)))]
    ELSE IF quantity > 0
         THEN [r EXCEPT !.positions =
                  MapPut(r.positions, symbol, Position(quantity, price))]
         ELSE r

update_position(r, symbol, quantity, price) ==
    IF symbol \in DOMAIN r.positions
    THEN LET pos == r.positions[symbol]
             old_qty == pos.quantity
             new_qty == old_qty + quantity
             realized_pnl == RMul(RSub(price, pos.avg_price), D(Abs(quantity)))
         IN  IF new_qty = 0
             THEN [positions |-> MapDel(r.positions, symbol),
                   daily_pnl |-> RAdd(r.daily_pnl, realized_pnl)]
             ELSE IF new_qty > 0
             THEN IF old_qty > 0 /\ quantity > 0
                  THEN LET total_cost == RAdd(RMul(pos.avg_price, D(old_qty)),
                                              RMul(price, D(quantity)))
                       IN  [r EXCEPT !.positions = MapPut(r.positions, symbol,
                               Position(new_qty, RDiv(total_cost, D(new_qty))))]
                  ELSE IF old_qty > 0 /\ quantity < 0
                  THEN [positions |-> MapPut(r.positions, symbol,
                                             Position(new_qty, pos.avg_price)),
                        daily_pnl |-> RAdd(r.daily_pnl, realized_pnl)]
                  ELSE r
             ELSE r
    ELSE IF quantity > 0
         THEN [r EXCEPT !.positions =
                  MapPut(r.positions, symbol, Position(quantity, price))]
         ELSE r

----------------------------------------------------------------------------
(* src/broker/base.py : the venue behind the Broker interface *)

Order(id, cid, symbol, side, type, quantity, price, status, filled_price) ==
    [ id |-> id, client_order_id |-> cid, symbol |-> symbol, side |-> side,
      type |-> type, quantity |-> quantity, price |-> price,
      status |-> status, filled_price |-> filled_price ]

NoOrder == Order(0, <<>>, "", "", "", 0, None, "", None)

\* MockBroker.__init__
EmptyVenue == [orders |-> <<>>, client_order_map |-> EmptyMap, positions |-> EmptyMap]

order_exists(v, client_order_id) == client_order_id \in DOMAIN v.client_order_map

\* Keys of the orders the venue reports as open (not filled, not canceled).
get_open_orders(v) ==
    { v.orders[i].client_order_id :
        i \in { j \in DOMAIN v.orders : v.orders[j].status = "pending" } }

get_positions(v) == v.positions

\* A venue that accepts a client_order_id it already knows.
SubmitRejectsDuplicate_Never(v, client_order_id) == FALSE

\* MockBroker.submit_order raises ValueError for a client_order_id it knows.
SubmitRejectsDuplicate(v, client_order_id) ==
    client_order_id \in DOMAIN v.client_order_map

\* MockBroker.submit_order: the fill price of the instant fill.
MockFillPrice(limit_price) == IF limit_price # None THEN limit_price ELSE D(100)

\* A venue that keeps the average price of a position it adds to.
MockPositionsAfter_FlatAverage(positions, symbol, side, quantity, fill_price) ==
    LET qty_change == IF side = "buy" THEN quantity ELSE -quantity
    IN  IF symbol \in DOMAIN positions
        THEN LET old_qty == positions[symbol][1]
                 old_avg == positions[symbol][2]
                 new_qty == old_qty + qty_change
             IN  IF new_qty = 0 THEN MapDel(positions, symbol)
                 ELSE IF new_qty > 0
                 THEN MapPut(positions, symbol, <<new_qty, old_avg>>)
                 ELSE positions
        ELSE IF qty_change > 0
             THEN MapPut(positions, symbol, <<qty_change, fill_price>>)
             ELSE positions

\* MockBroker.submit_order: the position bookkeeping of the fill.
MockPositionsAfter(positions, symbol, side, quantity, fill_price) ==
    LET qty_change == IF side = "buy" THEN quantity ELSE -quantity
    IN  IF symbol \in DOMAIN positions
        THEN LET old_qty == positions[symbol][1]
                 old_avg == positions[symbol][2]
                 new_qty == old_qty + qty_change
             IN  IF new_qty = 0 THEN MapDel(positions, symbol)
                 ELSE IF new_qty > 0
                 THEN IF old_qty > 0 /\ qty_change > 0
                      THEN MapPut(positions, symbol,
                             <<new_qty,
                               RDiv(RAdd(RMul(old_avg, D(old_qty)),
                                         RMul(fill_price, D(quantity))),
                                    D(new_qty))>>)
                      ELSE MapPut(positions, symbol, <<new_qty, old_avg>>)
                 ELSE positions
        ELSE IF qty_change > 0
             THEN MapPut(positions, symbol, <<qty_change, fill_price>>)
             ELSE positions

\* The order a successful submit_order returns.  status "filled" is
\* MockBroker's instant fill; status "pending" is a venue that accepts the
\* order and leaves it open (AlpacaBroker: NEW / ACCEPTED map to PENDING).
SubmittedOrder(v, symbol, side, quantity, cid, order_type, limit_price, status) ==
    Order(Len(v.orders) + 1, cid, symbol, side, order_type, quantity, limit_price,
          status,
          IF status = "filled" THEN MockFillPrice(limit_price) ELSE None)

\* A venue that appends the order and keeps no index of client order ids.
VenueAfterSubmit_NoKeyIndex(v, order) ==
    [ orders |-> Append(v.orders, order),
      client_order_map |-> v.client_order_map,
      positions |->
          IF order.status = "filled"
          THEN MockPositionsAfter(v.positions, order.symbol, order.side,
                                  order.quantity, order.filled_price)
          ELSE v.positions ]

\* The venue after it accepted the order.
VenueAfterSubmit(v, order) ==
    [ orders |-> Append(v.orders, order),
      client_order_map |-> MapPut(v.client_order_map, order.client_order_id, order.id),
      positions |->
          IF order.status = "filled"
          THEN MockPositionsAfter(v.positions, order.symbol, order.side,
                                  order.quantity, order.filled_price)
          ELSE v.positions ]

----------------------------------------------------------------------------
(* src/app/order_pipeline.py : the pure parts of submit_signal_order *)

OrderSubmissionResult(success, reason, has_order, client_order_id) ==
    [ success |-> success, reason |-> reason, has_order |-> has_order,
      client_order_id |-> client_order_id ]

NoResult == OrderSubmissionResult(FALSE, <<"", "">>, FALSE, <<>>)

Verdict(passed, reason, trace) == [passed |-> passed, reason |-> reason, trace |-> trace]

\* The RiskManager checks without the exposure check.
PreTradeChecks_NoExposure(signal, quantity, r, cfg) ==
    LET risk_check == check_signal(r, cfg, signal)
        qty_check == check_order_quantity(cfg, quantity)
        notional_check == check_order_notional(cfg, quantity, signal.price)
    IN  IF ~risk_check.passed
        THEN Verdict(FALSE, <<"Risk check failed", risk_check.reason>>, <<"risk">>)
        ELSE IF ~qty_check.passed
        THEN Verdict(FALSE, <<"Quantity check failed", qty_check.reason>>,
                     <<"risk", "quantity">>)
        ELSE IF signal.price = None
        THEN Verdict(FALSE, <<"Signal price is required for notional check", "">>,
                     <<"risk", "quantity", "notional">>)
        ELSE IF ~notional_check.passed
        THEN Verdict(FALSE, <<"Notional check failed", notional_check.reason>>,
                     <<"risk", "quantity", "notional">>)
        ELSE Verdict(TRUE, <<"", "">>, <<"risk", "quantity", "notional", "exposure">>)

\* The RiskManager checks with the quantity check run before the signal check.
PreTradeChecks_QuantityFirst(signal, quantity, r, cfg) ==
    LET risk_check == check_signal(r, cfg, signal)
        qty_check == check_order_quantity(cfg, quantity)
        notional_check == check_order_notional(cfg, quantity, signal.price)
        exposure_check == check_positions_exposure(r, cfg, quantity, signal.price)
    IN  IF ~qty_check.passed
        THEN Verdict(FALSE, <<"Quantity check failed", qty_check.reason>>,
                     <<"risk", "quantity">>)
        ELSE IF ~risk_check.passed
        THEN Verdict(FALSE, <<"Risk check failed", risk_check.reason>>, <<"risk">>)
        ELSE IF signal.price = None
        THEN Verdict(FALSE, <<"Signal price is required for notional check", "">>,
                     <<"risk", "quantity", "notional">>)
        ELSE IF ~notional_check.passed
        THEN Verdict(FALSE, <<"Notional check failed", notional_check.reason>>,
                     <<"risk", "quantity", "notional">>)
        ELSE IF ~exposure_check.passed
        THEN Verdict(FALSE, <<"Exposure check failed", exposure_check.reason>>,
                     <<"risk", "quantity", "notional", "exposure">>)
        ELSE Verdict(TRUE, <<"", "">>, <<"risk", "quantity", "notional", "exposure">>)

\* Steps 4, 5, 5a, 5b: the RiskManager checks, in the order the pipeline runs them.
PreTradeChecks(signal, quantity, r, cfg) ==
    LET risk_check == check_signal(r, cfg, signal)
        qty_check == check_order_quantity(cfg, quantity)
        notional_check == check_order_notional(cfg, quantity, signal.price)
        exposure_check == check_positions_exposure(r, cfg, quantity, signal.price)
    IN  IF ~risk_check.passed
        THEN Verdict(FALSE, <<"Risk check failed", risk_check.reason>>, <<"risk">>)
        ELSE IF ~qty_check.passed
        THEN Verdict(FALSE, <<"Quantity check failed", qty_check.reason>>,
                     <<"risk", "quantity">>)
        ELSE IF signal.price = None
        THEN Verdict(FALSE, <<"Signal price is required for notional check", "">>,
                     <<"risk", "quantity", "notional">>)
        ELSE IF ~notional_check.passed
        THEN Verdict(FALSE, <<"Notional check failed", notional_check.reason>>,
                     <<"risk", "quantity", "notional">>)
        ELSE IF ~exposure_check.passed
        THEN Verdict(FALSE, <<"Exposure check failed", exposure_check.reason>>,
                     <<"risk", "quantity", "notional", "exposure">>)
        ELSE Verdict(TRUE, <<"", "">>, <<"risk", "quantity", "notional", "exposure">>)

\* Step 5d: order type and limit price.
OrderTypeOf(cfg) == IF cfg.use_limit_orders THEN "limit" ELSE "market"

LimitPriceOf(cfg, quote, side) ==
    IF OrderTypeOf(cfg) = "limit"
    THEN LET quarter_spread == RDiv(QuoteSpread(quote), D(4))
         IN  IF side = "buy"
             THEN RMin(quote[2], RAdd(QuoteMid(quote), quarter_spread))
             ELSE RMax(quote[1], RSub(QuoteMid(quote), quarter_spread))
    ELSE None

\* Step 5e: edge in basis points of the limit price against the expected price.
EdgeBps(limit_price, expected_price) ==
    IF expected_price # D(0)
    THEN RMul(RDiv(RSub(limit_price, expected_price), expected_price), D(10000))
    ELSE D(0)

EdgeCheckRuns(cfg) == OrderTypeOf(cfg) = "limit" /\ RLt(D(0), cfg.min_edge_bps)

EdgeCheckFails(cfg, quote, side) ==
    LET edge_bps == EdgeBps(LimitPriceOf(cfg, quote, side),
                            ExpectedEntryPrice(quote, side))
    IN  IF side = "buy"
        THEN RLt(RNeg(cfg.min_edge_bps), edge_bps)
        ELSE RLt(edge_bps, cfg.min_edge_bps)

\* The cost controls without the spread check.
CostChecks_NoSpread(signal, quote, cfg) ==
    IF EdgeCheckRuns(cfg)
    THEN IF EdgeCheckFails(cfg, quote, signal.side)
         THEN Verdict(FALSE, <<"Insufficient edge", "">>, <<"edge">>)
         ELSE Verdict(TRUE, <<"", "">>, <<"edge">>)
    ELSE Verdict(TRUE, <<"", "">>, <<>>)

\* Cost controls that already turn away a spread equal to the limit.
CostChecks_SpreadAtLimit(signal, quote, cfg) ==
    IF RLe(cfg.max_spread_bps, QuoteSpreadBps(quote))
    THEN Verdict(FALSE, <<"Spread too wide", "">>, <<"spread">>)
    ELSE IF EdgeCheckRuns(cfg)
    THEN IF EdgeCheckFails(cfg, quote, signal.side)
         THEN Verdict(FALSE, <<"Insufficient edge", "">>, <<"spread", "edge">>)
         ELSE Verdict(TRUE, <<"", "">>, <<"spread", "edge">>)
    ELSE Verdict(TRUE, <<"", "">>, <<"spread">>)

\* Steps 5c, 5e: the cost controls on the fetched quote.
CostChecks(signal, quote, cfg) ==
    IF RLt(cfg.max_spread_bps, QuoteSpreadBps(quote))
    THEN Verdict(FALSE, <<"Spread too wide", "">>, <<"spread">>)
    ELSE IF EdgeCheckRuns(cfg)
    THEN IF EdgeCheckFails(cfg, quote, signal.side)
         THEN Verdict(FALSE, <<"Insufficient edge", "">>, <<"spread", "edge">>)
         ELSE Verdict(TRUE, <<"", "">>, <<"spread", "edge">>)
    ELSE Verdict(TRUE, <<"", "">>, <<"spread">>)

----------------------------------------------------------------------------
(* Symbol eligibility: the blacklist and the whitelist of the configuration. *)

\* An eligibility check in which a whitelisted symbol is eligible at once.
check_symbol_eligibility_WhitelistFirst(cfg, symbol) ==
    IF cfg.symbol_whitelist # {} /\ symbol \in cfg.symbol_whitelist
    THEN RiskCheckResult(TRUE, "Symbol eligible")
    ELSE IF symbol \in cfg.symbol_blacklist
    THEN RiskCheckResult(FALSE, "in blacklist")
    ELSE IF cfg.symbol_whitelist # {}
    THEN RiskCheckResult(FALSE, "not in whitelist")
    ELSE RiskCheckResult(TRUE, "Symbol eligible")

\* Blacklist first, whatever the whitelist; then the whitelist when it is not
\* empty.
check_symbol_eligibility(cfg, symbol) ==
    IF symbol \in cfg.symbol_blacklist
    THEN RiskCheckResult(FALSE, "in blacklist")
    ELSE IF cfg.symbol_whitelist # {} /\ symbol \notin cfg.symbol_whitelist
    THEN RiskCheckResult(FALSE, "not in whitelist")
    ELSE RiskCheckResult(TRUE, "Symbol eligible")

\* Step 4 onwards: eligibility, then the signal-level and order-shape checks.
SignalLevelChecks(signal, quantity, r, cfg) ==
    IF ~check_symbol_eligibility(cfg, signal.symbol).passed
    THEN Verdict(FALSE,
                 <<"Symbol not eligible",
                   check_symbol_eligibility(cfg, signal.symbol).reason>>,
                 <<"eligibility">>)
    ELSE PreTradeChecks(signal, quantity, r, cfg)

----------------------------------------------------------------------------
(* Locals of one submit_signal_order call, with what the call started from. *)

NoSignal == [symbol |-> "", side |-> "", timestamp |-> <<0, 0>>, price |-> None]

Snapshot(keys, f, r, oc, fc, tc, in_broker) ==
    [ keys |-> keys, file |-> f, positions |-> r.positions, daily_pnl |-> r.daily_pnl,
      orders_csv |-> oc, fills_csv |-> fc, trades_csv |-> tc, in_broker |-> in_broker ]

NoPrev == [client_order_id |-> <<>>, live_success |-> FALSE, restarted |-> FALSE]

NoCall ==
    [ signal |-> NoSignal, quantity |-> 0, client_order_id |-> <<>>,
      quote |-> <<None, None>>, limit_price |-> None, order |-> NoOrder,
      result |-> NoResult, trace |-> <<>>, submits |-> 0, save_failed |-> FALSE,
      raised_from |-> "",
      pre |-> Snapshot({}, FileAbsent, RiskManager(D(0)), <<>>, <<>>, <<>>, FALSE),
      first |-> NoPrev ]

\* The strategy name run_trading_loop passes to the pipeline.
StrategyName == "SMA"

----------------------------------------------------------------------------
(* src/app/reconciliation.py : ReconciliationResult, and the pass of a run *)

ReconciliationResult ==
    [ broker_open_orders_count |-> 0, local_orders_added |-> 0,
      broker_positions_count |-> 0, positions_synced |-> 0,
      positions_added |-> 0, positions_removed |-> 0 ]

\* No reconciliation pass to speak of: none has run, or the trading loop has
\* moved on.  Otherwise: what the pass started from, what the venue answered
\* (or that it raised), the result, and whether the caller is done with it;
\* and the passes made earlier on the same state and RiskManager.
NoReconciliation ==
    [ done |-> FALSE, orders_raised |-> FALSE, positions_raised |-> FALSE,
      keys_before |-> {}, positions_before |-> EmptyMap,
      broker_open_orders |-> {}, broker_positions |-> EmptyMap,
      result |-> ReconciliationResult, earlier |-> <<>> ]

----------------------------------------------------------------------------
(* A RiskManager method called on its own: the method, its arguments, the
   manager it was called on and what it returned. *)

\* The session kill switch: the limit the manager was configured with (None:
\* no limit) and the PnL realized since the manager was constructed.
Session(max_session_loss) ==
    [max_session_loss |-> max_session_loss, session_pnl |-> D(0)]

NoSession == Session(None)

\* update_position folds the delta it realizes into the session PnL as it does
\* into the daily PnL.
SessionAfterFill(sess, before, after) ==
    [sess EXCEPT !.session_pnl = RAdd(@, RSub(after.daily_pnl, before.daily_pnl))]

\* A session kill switch that trips only beyond the limit.
SessionLossCheck_Strict(sess) ==
    IF sess.max_session_loss # None
       /\ RLt(sess.session_pnl, RNeg(sess.max_session_loss))
    THEN RiskCheckResult(FALSE, "Session loss limit exceeded")
    ELSE RiskCheckResult(TRUE, "All checks passed")

\* The session kill switch, active only when a limit is configured.
SessionLossCheck(sess) ==
    IF sess.max_session_loss # None
       /\ RLe(sess.session_pnl, RNeg(sess.max_session_loss))
    THEN RiskCheckResult(FALSE, "Session loss limit exceeded")
    ELSE RiskCheckResult(TRUE, "All checks passed")

\* check_signal with the session kill switch after the daily one.
check_signal_session(r, cfg, sess, signal) ==
    IF ~check_signal(r, cfg, signal).passed
    THEN check_signal(r, cfg, signal)
    ELSE SessionLossCheck(sess)

\* The for loop over config.allowed_symbols of one iteration of the trading
\* loop: the iteration's number, the symbols still to process, the symbols
\* processed, and those whose signal the pipeline rejected.  No iteration yet.
NoCycle == [iteration |-> 0, todo |-> <<>>, done |-> <<>>, rejected |-> {}]

NoRiskCall ==
    [ op |-> "", signal |-> NoSignal, symbol |-> "", quantity |-> 0,
      price |-> None, before |-> RiskManager(D(0)),
      result |-> RiskCheckResult(TRUE, ""), updates |-> 0 ]

----------------------------------------------------------------------------
(* Initial state: a fresh deployment, no process running. *)

Init ==
    /\ config \in Configs
    /\ file = FileAbsent
    /\ venue = EmptyVenue
    /\ orders_csv = <<>>
    /\ fills_csv = <<>>
    /\ trades_csv = <<>>
    /\ pc = [p \in Procs |-> "down"]
    /\ state = [p \in Procs |-> BotState({})]
    /\ rm = [p \in Procs |-> RiskManager(D(0))]
    /\ call = [p \in Procs |-> NoCall]
    /\ prev = NoPrev
    /\ recon = [p \in Procs |-> NoReconciliation]
    /\ risk = NoRiskCall
    /\ session = NoSession
    /\ cycle = NoCycle
    /\ durable = FileAbsent

----------------------------------------------------------------------------
(* src/app/__main__.py : run_trading_loop, start of a run *)

\* load_state(), state.run_id = run_id, then
\* RiskManager(config, daily_realized_pnl=daily_pnl).
Start(p) ==
    /\ pc[p] = "down"
    /\ ~LoadOutcome(file).raised
    /\ state' = [state EXCEPT ![p] = [load_state(file) EXCEPT !.run_id = p]]
    /\ rm' = [rm EXCEPT ![p] =
                 RiskManager(get_daily_realized_pnl(load_state(file), Today))]
    /\ pc' = [pc EXCEPT ![p] = "reconcile_orders"]
    /\ prev' = IF prev.live_success
               THEN [prev EXCEPT !.restarted = TRUE] ELSE prev
    /\ UNCHANGED <<cycle, recon, durable, session, risk, config, file, venue, orders_csv, fills_csv,
                   trades_csv, call>>

----------------------------------------------------------------------------
(* src/app/reconciliation.py : reconcile_with_broker *)

\* A reconciliation that replaces the submitted keys by the venue's open orders.
ReconciledKeys_Replace(keys, broker_open_orders) == broker_open_orders

\* Step 1: union the venue's open orders into the submitted keys.
ReconciledKeys(keys, broker_open_orders) == keys \cup broker_open_orders

\* A count of added orders that counts every open order of the venue.
OrderCounts_AllOpen(result, local_orders_before, broker_open_orders) ==
    [result EXCEPT
        !.broker_open_orders_count = Cardinality(broker_open_orders),
        !.local_orders_added = Cardinality(broker_open_orders)]

\* Step 1: the counts of the order sync.
OrderCounts(result, local_orders_before, broker_open_orders) ==
    [result EXCEPT
        !.broker_open_orders_count = Cardinality(broker_open_orders),
        !.local_orders_added = Cardinality(broker_open_orders \ local_orders_before)]

\* A position sync that keeps the local positions the venue does not hold.
ReconciledPositions_KeepLocal(local_positions, broker_positions) ==
    [ s \in DOMAIN local_positions \cup DOMAIN broker_positions |->
        IF s \in DOMAIN broker_positions
        THEN Position(broker_positions[s][1], broker_positions[s][2])
        ELSE local_positions[s] ]

\* A position sync that takes the venue's quantity and keeps the local average.
ReconciledPositions_QuantityOnly(local_positions, broker_positions) ==
    [ s \in DOMAIN broker_positions |->
        IF s \in DOMAIN local_positions
        THEN Position(broker_positions[s][1], local_positions[s].avg_price)
        ELSE Position(broker_positions[s][1], broker_positions[s][2]) ]

\* Step 2: mirror the venue's positions.
ReconciledPositions(local_positions, broker_positions) ==
    LET synced ==
            [ s \in DOMAIN local_positions \cup DOMAIN broker_positions |->
                IF s \in DOMAIN broker_positions
                THEN IF s \in DOMAIN local_positions
                        /\ local_positions[s].quantity = broker_positions[s][1]
                        /\ local_positions[s].avg_price = broker_positions[s][2]
                     THEN local_positions[s]
                     ELSE Position(broker_positions[s][1], broker_positions[s][2])
                ELSE local_positions[s] ]
        symbols_to_remove == DOMAIN local_positions \ DOMAIN broker_positions
    IN  [s \in DOMAIN synced \ symbols_to_remove |-> synced[s]]

\* Step 2: the counts of the position sync.
PositionCounts(result, local_positions, broker_positions) ==
    LET both == DOMAIN local_positions \cap DOMAIN broker_positions
        differ == { s \in both :
                      \/ local_positions[s].quantity # broker_positions[s][1]
                      \/ local_positions[s].avg_price # broker_positions[s][2] }
    IN  [result EXCEPT
            !.broker_positions_count = Cardinality(DOMAIN broker_positions),
            !.positions_synced = Cardinality(differ),
            !.positions_added =
                Cardinality(DOMAIN broker_positions \ DOMAIN local_positions),
            !.positions_removed =
                Cardinality(DOMAIN local_positions \ DOMAIN broker_positions)]

\* A reconciliation that gives up when the order fetch raised.
AfterOrderSync_Abort(raised) == IF raised THEN "reconciled" ELSE "reconcile_positions"

\* Step 1 is a try block of its own: step 2 follows whether or not it raised.
AfterOrderSync(raised) == "reconcile_positions"

\* Step 1: broker.get_open_orders() answers or raises (raises: the outcomes
\* the specification at hand lets happen).
ReconcileOrders(p, raises) ==
    /\ pc[p] = "reconcile_orders"
    /\ \E raised \in raises :
          LET local_orders_before == state[p].submitted_client_order_ids
              broker_open_orders == get_open_orders(venue)
              r0 == [NoReconciliation EXCEPT
                        !.keys_before = local_orders_before,
                        !.positions_before = rm[p].positions,
                        !.orders_raised = raised,
                        !.earlier = recon[p].earlier]
          IN  /\ state' = IF raised THEN state
                          ELSE [state EXCEPT ![p].submitted_client_order_ids =
                                   ReconciledKeys(@, broker_open_orders)]
              /\ recon' = [recon EXCEPT ![p] =
                             IF raised THEN r0
                             ELSE [r0 EXCEPT
                                     !.broker_open_orders = broker_open_orders,
                                     !.result = OrderCounts(@, local_orders_before,
                                                            broker_open_orders)]]
              /\ pc' = [pc EXCEPT ![p] = AfterOrderSync(raised)]
    /\ UNCHANGED <<cycle, durable, session, risk, config, file, venue, orders_csv, fills_csv, trades_csv,
                   rm, call, prev>>

\* Step 2: broker.get_positions() answers or raises; then the pass returns.
ReconcilePositions(p, raises) ==
    /\ pc[p] = "reconcile_positions"
    /\ \E raised \in raises :
          LET local_positions == rm[p].positions
              broker_positions == get_positions(venue)
          IN  /\ rm' = IF raised THEN rm
                       ELSE [rm EXCEPT ![p].positions =
                                ReconciledPositions(@, broker_positions)]
              /\ recon' = [recon EXCEPT ![p] =
                             IF raised THEN [@ EXCEPT !.positions_raised = TRUE]
                             ELSE [@ EXCEPT
                                     !.broker_positions = broker_positions,
                                     !.result = PositionCounts(@, local_positions,
                                                               broker_positions)]]
    /\ pc' = [pc EXCEPT ![p] = "reconciled"]
    /\ UNCHANGED <<cycle, durable, session, risk, config, file, venue, orders_csv, fills_csv, trades_csv,
                   state, call, prev>>

----------------------------------------------------------------------------
(* src/app/__main__.py : run_trading_loop, after reconcile_with_broker *)

\* save_state(state) follows the pass in reconcile-only mode only.
SavesAfterReconcile(reconcile_only) == reconcile_only

\* The run exits through the reconcile-only branch or enters the trading loop.
AfterReconcile(p) ==
    /\ pc[p] = "reconciled"
    /\ \E reconcile_only \in BOOLEAN :
          pc' = [pc EXCEPT ![p] =
                    IF SavesAfterReconcile(reconcile_only) THEN "exit_save"
                    ELSE "idle"]
    /\ recon' = [recon EXCEPT ![p].done = TRUE]
    /\ UNCHANGED <<cycle, durable, session, risk, config, file, venue, orders_csv, fills_csv, trades_csv,
                   state, rm, call, prev>>

----------------------------------------------------------------------------
(* src/app/order_pipeline.py : submit_signal_order, one action per I/O call *)

\* return OrderSubmissionResult(...): the call is over, its result is with the caller.
Return(p, c, result) ==
    /\ pc' = [pc EXCEPT ![p] = "returned"]
    /\ call' = [call EXCEPT ![p] = [c EXCEPT !.result = result]]
    /\ prev' = [ client_order_id |-> c.client_order_id,
                 live_success |-> result.success /\ result.has_order,
                 restarted |-> FALSE ]

\* A pipeline that never finds the key in the local state.
LocalDuplicate_Never(st, cid) == FALSE

\* A pipeline that forgets to add the key it found at the venue.
StateAfterBrokerDuplicate_NoAdd(st, cid) == st

\* A pipeline that forgets to add the key of the accepted order.
StateAfterSubmission_NoAdd(st, cid) == st

\* A pipeline that marks the key as submitted although the adapter raised.
StateAfterBrokerError_AddsKey(st, cid) ==
    [st EXCEPT !.submitted_client_order_ids = @ \cup {cid}]

\* A pipeline that tries submit_order a second time.
AfterSubmitAttempt_Retry(c) == [c EXCEPT !.submits = @ + 2]

\* Step 2: the key is already in state.submitted_client_order_ids.
LocalDuplicate(st, cid) == cid \in st.submitted_client_order_ids

\* Step 3: state.submitted_client_order_ids.add(client_order_id), venue duplicate.
StateAfterBrokerDuplicate(st, cid) ==
    [st EXCEPT !.submitted_client_order_ids = @ \cup {cid}]

\* Step 8: state.submitted_client_order_ids.add(client_order_id), order accepted.
StateAfterSubmission(st, cid) ==
    [st EXCEPT !.submitted_client_order_ids = @ \cup {cid}]

\* Step 6, except branch: the state is left as it was.
StateAfterBrokerError(st, cid) == st

\* Step 6: one broker.submit_order call inside the try block.
AfterSubmitAttempt(c) == [c EXCEPT !.submits = @ + 1]

\* DRY-RUN MODE: stop before the broker call.
\* A pipeline that ignores the dry-run switch.
DryRunStops_Never(cfg) == FALSE

DryRunStops(cfg) == cfg.dry_run

\* Steps 1 to 5b: key, duplicate checks (one order_exists query), risk checks.
SubmitBeginStep(p, signal, quantity) ==
    /\ pc[p] = "idle"
    /\ LET cid == build_client_order_id(signal.symbol, signal.side,
                                        signal.timestamp, StrategyName)
           c0 == [NoCall EXCEPT
                    !.signal = signal, !.quantity = quantity,
                    !.client_order_id = cid, !.first = prev,
                    !.pre = Snapshot(state[p].submitted_client_order_ids, file, rm[p],
                                     orders_csv, fills_csv, trades_csv,
                                     order_exists(venue, cid))]
           checks == SignalLevelChecks(signal, quantity, rm[p], config)
       IN  IF LocalDuplicate(state[p], cid)
           THEN /\ Return(p, [c0 EXCEPT !.trace = <<"state">>],
                          OrderSubmissionResult(FALSE,
                              <<"Duplicate order", "already in state">>, FALSE, cid))
                /\ UNCHANGED state
           ELSE IF order_exists(venue, cid)
           THEN /\ state' = [state EXCEPT ![p] = StateAfterBrokerDuplicate(@, cid)]
                /\ call' = [call EXCEPT ![p] = [c0 EXCEPT !.trace = <<"state", "broker">>]]
                /\ pc' = [pc EXCEPT ![p] = "heal_save"]
                /\ UNCHANGED prev
           ELSE IF ~checks.passed
           THEN /\ Return(p, [c0 EXCEPT !.trace = <<"state", "broker">> \o checks.trace],
                          OrderSubmissionResult(FALSE, checks.reason, FALSE, cid))
                /\ UNCHANGED state
           ELSE /\ call' = [call EXCEPT ![p] =
                              [c0 EXCEPT !.trace = <<"state", "broker">> \o checks.trace]]
                /\ pc' = [pc EXCEPT ![p] = "quote"]
                /\ UNCHANGED <<state, prev>>
    /\ recon' = [recon EXCEPT ![p] = NoReconciliation]
    /\ UNCHANGED <<durable, session, risk, config, file, venue, orders_csv, fills_csv, trades_csv, rm>>

\* submit_signal_order called by a caller that is not going through the
\* symbols of a trading-loop iteration.
SubmitBegin(p, signal, quantity) ==
    /\ SubmitBeginStep(p, signal, quantity)
    /\ UNCHANGED cycle

\* Steps 5c to 5e and the dry-run stop: broker.get_quote, spread, limit price, edge.
GetQuote(p, quote) ==
    /\ pc[p] = "quote"
    /\ LET c == call[p]
           checks == CostChecks(c.signal, quote, config)
           c1 == [c EXCEPT !.quote = quote, !.trace = @ \o checks.trace]
       IN  IF ~checks.passed
           THEN Return(p, c1, OrderSubmissionResult(FALSE, checks.reason, FALSE,
                                                     c.client_order_id))
           ELSE IF DryRunStops(config)
           THEN Return(p, c1, OrderSubmissionResult(TRUE,
                           <<"Dry-run", "order would have been submitted">>, FALSE,
                           c.client_order_id))
           ELSE /\ call' = [call EXCEPT ![p] =
                              [c1 EXCEPT !.limit_price =
                                  LimitPriceOf(config, quote, c.signal.side)]]
                /\ pc' = [pc EXCEPT ![p] = "submit"]
                /\ UNCHANGED prev
    /\ UNCHANGED <<cycle, recon, durable, session, risk, config, file, venue, orders_csv, fills_csv, trades_csv, state, rm>>

\* A pipeline that wraps every adapter call in a try block.
AdapterErrorCaught_Everywhere(site) == TRUE

\* The adapter calls of submit_signal_order inside a try block: submit_order
\* alone (step 6); order_exists (step 3) and get_quote (step 5c) are bare calls.
AdapterErrorCaught(site) == site = "submit_order"

\* The exception of an adapter call: turned into a failure result where a try
\* block catches it, otherwise out of submit_signal_order to the caller.
AdapterRaises(p, c, site) ==
    IF AdapterErrorCaught(site)
    THEN Return(p, [c EXCEPT !.raised_from = site],
                OrderSubmissionResult(FALSE, <<"Broker error", "">>, FALSE,
                                      c.client_order_id))
    ELSE /\ pc' = [pc EXCEPT ![p] = "raised"]
         /\ call' = [call EXCEPT ![p] = [c EXCEPT !.raised_from = site]]
         /\ UNCHANGED prev

\* Steps 1 to 3 with an adapter that raises from broker.order_exists: the key
\* is not in the local state, the query is made and fails.
OrderExistsRaises(p, signal, quantity) ==
    /\ pc[p] = "idle"
    /\ LET cid == build_client_order_id(signal.symbol, signal.side,
                                        signal.timestamp, StrategyName)
           c0 == [NoCall EXCEPT
                    !.signal = signal, !.quantity = quantity,
                    !.client_order_id = cid, !.first = prev,
                    !.trace = <<"state">>,
                    !.pre = Snapshot(state[p].submitted_client_order_ids, file, rm[p],
                                     orders_csv, fills_csv, trades_csv,
                                     cid \in DOMAIN venue.client_order_map)]
       IN  /\ ~LocalDuplicate(state[p], cid)
           /\ AdapterRaises(p, c0, "order_exists")
    /\ recon' = [recon EXCEPT ![p] = NoReconciliation]
    /\ UNCHANGED <<cycle, durable, session, risk, config, file, venue, orders_csv,
                   fills_csv, trades_csv, state, rm>>

\* Step 5c with an adapter that raises from broker.get_quote.
GetQuoteRaises(p) ==
    /\ pc[p] = "quote"
    /\ AdapterRaises(p, call[p], "get_quote")
    /\ UNCHANGED <<cycle, recon, durable, session, risk, config, file, venue,
                   orders_csv, fills_csv, trades_csv, state, rm>>

\* Step 6: broker.submit_order.  The adapter raises (a duplicate key, a venue
\* that takes no more orders, or any other adapter error), or the venue accepts
\* the order and reports it filled or still open.
BrokerSubmit(p) ==
    /\ pc[p] = "submit"
    /\ \E outcome \in {"raise", "filled", "pending"} :
          LET c == AfterSubmitAttempt(call[p])
              order == SubmittedOrder(venue, c.signal.symbol, c.signal.side,
                                      c.quantity, c.client_order_id,
                                      OrderTypeOf(config), c.limit_price, outcome)
          IN  IF \/ outcome = "raise"
                 \/ SubmitRejectsDuplicate(venue, c.client_order_id)
                 \/ Len(venue.orders) >= MaxOrders
              THEN /\ Return(p, c, OrderSubmissionResult(FALSE,
                                      <<"Broker error", "">>, FALSE, c.client_order_id))
                   /\ state' = [state EXCEPT ![p] =
                                   StateAfterBrokerError(@, c.client_order_id)]
                   /\ UNCHANGED venue
              ELSE /\ venue' = VenueAfterSubmit(venue, order)
                   /\ call' = [call EXCEPT ![p] = [c EXCEPT !.order = order]]
                   /\ pc' = [pc EXCEPT ![p] = "write_order"]
                   /\ UNCHANGED <<state, prev>>
    /\ UNCHANGED <<cycle, recon, durable, session, risk, config, file, orders_csv, fills_csv, trades_csv, rm>>

\* Step 7 and the first half of step 8: the order record, then the key in memory.
WriteOrder(p) ==
    /\ pc[p] = "write_order"
    /\ orders_csv' = Append(orders_csv, call[p].client_order_id)
    /\ state' = [state EXCEPT ![p] = StateAfterSubmission(@, call[p].client_order_id)]
    /\ pc' = [pc EXCEPT ![p] = "ok_save"]
    /\ UNCHANGED <<cycle, recon, durable, session, risk, config, file, venue, fills_csv, trades_csv, rm, call, prev>>

----------------------------------------------------------------------------
(* src/app/state.py : save_state, two steps: open(..., "w"), then json.dump *)

SaveSites == {"heal_save", "ok_save", "loop_save", "exit_save"}
DumpSites == {"heal_dump", "ok_dump", "loop_dump", "exit_dump"}

DumpSite(site) ==
    CASE site = "heal_save" -> "heal_dump"
      [] site = "ok_save"   -> "ok_dump"
      [] site = "loop_save" -> "loop_dump"
      [] site = "exit_save" -> "exit_dump"

\* What json.dump leaves in the file: the whole state, the key set as a list.
SavedFile(st) == FileJson(st)

\* A step 9 that takes no order for filled.
OrderIsFilled_Never(order) == FALSE

\* Step 9: the record of a fill is written only for an order reported filled.
OrderIsFilled(order) == order.status = "filled"

\* A save_state that swallows its I/O errors.
SaveRaises_Swallowed(ok) == FALSE

\* save_state has no try block: a failing open or json.dump raises.
SaveRaises(ok) == ~ok

\* The exception of a failed save leaves save_state and its caller: out of
\* submit_signal_order (to the handler of the loop iteration), out of the loop
\* iteration (to its handler, and on to the next iteration), or out of the run.
RaiseFromSave(p) ==
    CASE pc[p] \in {"heal_save", "heal_dump", "ok_save", "ok_dump"} ->
              /\ pc' = [pc EXCEPT ![p] = "raised"]
              /\ call' = [call EXCEPT ![p].save_failed = TRUE]
              /\ UNCHANGED <<state, rm, recon>>
      [] pc[p] \in {"loop_save", "loop_dump"} ->
              /\ pc' = [pc EXCEPT ![p] = "idle"]
              /\ UNCHANGED <<state, rm, call, recon>>
      [] pc[p] \in {"exit_save", "exit_dump"} ->
              /\ pc' = [pc EXCEPT ![p] = "down"]
              /\ state' = [state EXCEPT ![p] = BotState({})]
              /\ rm' = [rm EXCEPT ![p] = RiskManager(D(0))]
              /\ recon' = [recon EXCEPT ![p] = NoReconciliation]
              /\ UNCHANGED call

\* open(state_file, "w"): the file is truncated, or the open fails (oks: the
\* outcomes the specification at hand lets happen).
SaveOpen(p, oks) ==
    /\ pc[p] \in SaveSites
    /\ \E ok \in oks :
          /\ file' = IF ok THEN FilePartial ELSE file
          /\ IF SaveRaises(ok)
             THEN RaiseFromSave(p)
             ELSE /\ pc' = [pc EXCEPT ![p] = DumpSite(pc[p])]
                  /\ UNCHANGED <<state, rm, call, recon>>
    /\ UNCHANGED <<cycle, durable, session, risk, config, venue, orders_csv, fills_csv, trades_csv, prev>>

\* After save_state returned: what follows the call at each of its sites.
AfterSave(p) ==
    CASE pc[p] = "heal_dump" ->
              /\ Return(p, call[p], OrderSubmissionResult(FALSE,
                            <<"Duplicate order", "already in broker">>, FALSE,
                            call[p].client_order_id))
              /\ UNCHANGED <<state, rm, recon>>
      [] pc[p] = "ok_dump" ->
              /\ IF OrderIsFilled(call[p].order)
                 THEN /\ pc' = [pc EXCEPT ![p] = "write_fill"]
                      /\ UNCHANGED <<call, prev>>
                 ELSE Return(p, call[p], OrderSubmissionResult(TRUE,
                                 <<"Order submitted successfully", "">>, TRUE,
                                 call[p].client_order_id))
              /\ UNCHANGED <<state, rm, recon>>
      [] pc[p] = "loop_dump" ->
              /\ pc' = [pc EXCEPT ![p] = "idle"]
              /\ UNCHANGED <<state, rm, call, prev, recon>>
      [] pc[p] = "exit_dump" ->
              /\ pc' = [pc EXCEPT ![p] = "down"]
              /\ state' = [state EXCEPT ![p] = BotState({})]
              /\ rm' = [rm EXCEPT ![p] = RiskManager(D(0))]
              /\ recon' = [recon EXCEPT ![p] = NoReconciliation]
              /\ UNCHANGED <<call, prev>>

\* json.dump(state_dict, f) writes the document or fails part-way; then what
\* follows the save_state call.
SaveDump(p, oks) ==
    /\ pc[p] \in DumpSites
    /\ \E ok \in oks :
          /\ file' = IF ok THEN SavedFile(state[p]) ELSE file
          /\ durable' = IF ok THEN SavedFile(state[p]) ELSE durable
          /\ IF SaveRaises(ok)
             THEN RaiseFromSave(p) /\ UNCHANGED prev
             ELSE AfterSave(p)
    /\ UNCHANGED <<cycle, session, risk, config, venue, orders_csv, fills_csv, trades_csv>>

----------------------------------------------------------------------------
(* src/app/order_pipeline.py : submit_signal_order, step 9 *)

\* The fill record, then risk_manager.update_position with the signed quantity.
WriteFill(p) ==
    /\ pc[p] = "write_fill"
    /\ fills_csv' = Append(fills_csv, call[p].client_order_id)
    /\ LET c == call[p]
           qty_signed == IF c.signal.side = "buy" THEN c.quantity ELSE -c.quantity
       IN  rm' = [rm EXCEPT ![p] =
                     update_position(@, c.signal.symbol, qty_signed,
                                     c.order.filled_price)]
    /\ pc' = [pc EXCEPT ![p] = "write_trade"]
    /\ UNCHANGED <<cycle, recon, durable, session, risk, config, file, venue, orders_csv, trades_csv, state, call, prev>>

\* The trade record, then return success.
WriteTrade(p) ==
    /\ pc[p] = "write_trade"
    /\ trades_csv' = Append(trades_csv, call[p].client_order_id)
    /\ Return(p, call[p], OrderSubmissionResult(TRUE,
                  <<"Order submitted successfully", "">>, TRUE,
                  call[p].client_order_id))
    /\ UNCHANGED <<cycle, recon, durable, session, risk, config, file, venue, orders_csv, fills_csv, state, rm>>

----------------------------------------------------------------------------
(* src/app/__main__.py : run_trading_loop, after the pipeline returned *)

\* A live success is followed by save_state(state); anything else, an
\* exception caught by the handler of the iteration included, by the next signal.
LoopContinueStep(p) ==
    /\ pc[p] \in {"returned", "raised"}
    /\ pc' = [pc EXCEPT ![p] =
                 IF pc[p] = "returned"
                    /\ call[p].result.success /\ call[p].result.has_order
                    /\ ~config.dry_run
                 THEN "loop_save" ELSE "idle"]
    /\ call' = [call EXCEPT ![p] = NoCall]
    /\ UNCHANGED <<recon, durable, session, risk, config, file, venue, orders_csv, fills_csv,
                   trades_csv, state, rm, prev>>

LoopContinue(p) ==
    /\ LoopContinueStep(p)
    /\ UNCHANGED cycle

\* The process dies (or is stopped) between two steps: its memory is gone.
Crash(p) ==
    /\ pc[p] # "down"
    /\ pc' = [pc EXCEPT ![p] = "down"]
    /\ state' = [state EXCEPT ![p] = BotState({})]
    /\ rm' = [rm EXCEPT ![p] = RiskManager(D(0))]
    /\ call' = [call EXCEPT ![p] = NoCall]
    /\ recon' = [recon EXCEPT ![p] = NoReconciliation]
    /\ UNCHANGED <<cycle, durable, session, risk, config, file, venue, orders_csv, fills_csv, trades_csv, prev>>

----------------------------------------------------------------------------
(* Specifications. *)

\* Outcomes of the venue's reconciliation queries and of the writes to the
\* state file: all of them, or the ones of a run without I/O faults.
FetchRaises == BOOLEAN
FetchAnswers == {FALSE}
WriteOutcomes == BOOLEAN
WriteWorks == {TRUE}

\* The steps of a run: reconciliation, then the pipeline on each signal of the loop.
StepOn(p, signals, quantities, quotes, raises, oks) ==
    \/ Start(p)
    \/ ReconcileOrders(p, raises)
    \/ ReconcilePositions(p, raises)
    \/ AfterReconcile(p)
    \/ \E signal \in signals, quantity \in quantities : SubmitBegin(p, signal, quantity)
    \/ \E quote \in quotes : GetQuote(p, quote)
    \/ BrokerSubmit(p)
    \/ WriteOrder(p)
    \/ SaveOpen(p, oks)
    \/ SaveDump(p, oks)
    \/ WriteFill(p)
    \/ WriteTrade(p)
    \/ LoopContinue(p)
    \/ Crash(p)

\* One run at a time: a run, its crash or exit, the next run.  Every input of
\* the pipeline; the venue answers the reconciliation and the disk takes the
\* writes, and a run can die at any step.
Next == \E p \in Lineage : StepOn(p, Signals, Quantities, Quotes, FetchAnswers, WriteWorks)

Spec == Init /\ [][Next]_vars

\* A restarted instance running while an earlier one is still part-way through
\* a submission: both work on signals of the same bar.
ConcSignals == {s \in Signals : s.symbol = "AAPL" /\ s.side = "buy" /\ s.price = D(100)}
ConcQuantities == {10}
ConcQuotes == {<<Rat(999, 10), Rat(1001, 10)>>}

NextConc ==
    \E p \in Procs :
        StepOn(p, ConcSignals, ConcQuantities, ConcQuotes, FetchAnswers, WriteWorks)

SpecConc == Init /\ [][NextConc]_vars

----------------------------------------------------------------------------
(* load_state on every kind of state file. *)

\* Keys of signals of the first bar.
KeyOf(symbol, side) == build_client_order_id(symbol, side, <<1, 0>>, StrategyName)

LoadKeys == {KeyOf("AAPL", "buy"), KeyOf("AAPL", "sell"), KeyOf("XYZ", "buy")}

LoadPnls ==
    { EmptyMap, [d \in {Today} |-> D(-1)], [d \in {Yesterday} |-> D(-1)] }

\* States an earlier run may have saved.
LoadStates ==
    [ run_id : {"p1"}, submitted_client_order_ids : SUBSET LoadKeys,
      daily_realized_pnl : LoadPnls, daily_date : {Today, Yesterday, NoDate} ]

LoadFiles ==
    {FileAbsent, FilePartial, FileUnreadable, FileCorrupt}
        \cup {FileJson(st) : st \in LoadStates}

InitLoad ==
    /\ config = LimitConfig
    /\ file \in LoadFiles
    /\ durable = file
    /\ venue = EmptyVenue
    /\ orders_csv = <<>>
    /\ fills_csv = <<>>
    /\ trades_csv = <<>>
    /\ pc = [p \in Procs |-> "down"]
    /\ state = [p \in Procs |-> BotState({})]
    /\ rm = [p \in Procs |-> RiskManager(D(0))]
    /\ call = [p \in Procs |-> NoCall]
    /\ prev = NoPrev
    /\ recon = [p \in Procs |-> NoReconciliation]
    /\ risk = NoRiskCall
    /\ session = NoSession
    /\ cycle = NoCycle

\* state = load_state(): the state it returns, or the error it lets out.
LoadState(p) ==
    /\ pc[p] = "down"
    /\ state' = [state EXCEPT ![p] = LoadOutcome(file).state]
    /\ pc' = [pc EXCEPT ![p] =
                 IF LoadOutcome(file).raised THEN "load_raised" ELSE "loaded"]
    /\ UNCHANGED <<cycle, recon, durable, session, risk, config, file, venue, orders_csv, fills_csv,
                   trades_csv, rm, call, prev>>

NextLoad == \E p \in Lineage : LoadState(p)

SpecLoad == InitLoad /\ [][NextLoad]_vars

----------------------------------------------------------------------------
(* reconcile_with_broker on any local state against any venue. *)

\* The state of a run that loaded st.
StartedState(p, st) == [st EXCEPT !.run_id = p]

PendingOrder(id, symbol, side) ==
    Order(id, KeyOf(symbol, side), symbol, side, "limit", 10, D(100), "pending", None)

FilledOrder(id, symbol, side) ==
    Order(id, KeyOf(symbol, side), symbol, side, "limit", 10, D(100), "filled", D(100))

\* A venue holding the given orders, in the order of their submission, and positions.
VenueHolding(orders, positions) ==
    [ orders |-> orders,
      client_order_map |->
          [ k \in {orders[i].client_order_id : i \in DOMAIN orders} |->
              orders[CHOOSE i \in DOMAIN orders : orders[i].client_order_id = k].id ],
      positions |-> positions ]

ReconOrders ==
    { <<>>,
      <<PendingOrder(1, "AAPL", "sell")>>,
      <<PendingOrder(1, "AAPL", "sell"), PendingOrder(2, "MSFT", "buy")>>,
      <<FilledOrder(1, "AAPL", "sell"), PendingOrder(2, "MSFT", "buy")>> }

ReconBrokerPositions ==
    { EmptyMap,
      [s \in {"AAPL"} |-> <<10, D(100)>>],
      [s \in {"AAPL"} |-> <<10, D(101)>>],
      [s \in {"AAPL", "MSFT"} |-> IF s = "AAPL" THEN <<10, D(100)>> ELSE <<3, D(50)>>] }

ReconLocalKeys == SUBSET {KeyOf("AAPL", "buy"), KeyOf("AAPL", "sell")}

ReconLocalPositions ==
    { EmptyMap,
      [s \in {"AAPL"} |-> Position(10, D(100))],
      [s \in {"AAPL"} |-> Position(5, D(100))],
      [s \in {"AAPL", "GOOGL"} |->
          IF s = "AAPL" THEN Position(10, D(100)) ELSE Position(5, D(2000))] }

InitRecon ==
    /\ config = LimitConfig
    /\ file = FileAbsent
    /\ durable = FileAbsent
    /\ \E orders \in ReconOrders, positions \in ReconBrokerPositions :
          venue = VenueHolding(orders, positions)
    /\ orders_csv = <<>>
    /\ fills_csv = <<>>
    /\ trades_csv = <<>>
    /\ pc = [p \in Procs |-> IF p \in Lineage THEN "reconcile_orders" ELSE "down"]
    /\ \E keys \in ReconLocalKeys :
          state = [p \in Procs |->
                     IF p \in Lineage
                     THEN StartedState(p, [FreshState EXCEPT
                                              !.submitted_client_order_ids = keys])
                     ELSE BotState({})]
    /\ \E positions \in ReconLocalPositions :
          rm = [p \in Procs |->
                  IF p \in Lineage
                  THEN [RiskManager(D(0)) EXCEPT !.positions = positions]
                  ELSE RiskManager(D(0))]
    /\ call = [p \in Procs |-> NoCall]
    /\ prev = NoPrev
    /\ recon = [p \in Procs |-> NoReconciliation]
    /\ risk = NoRiskCall
    /\ session = NoSession
    /\ cycle = NoCycle

NextRecon ==
    \E p \in Lineage :
        \/ ReconcileOrders(p, FetchRaises)
        \/ ReconcilePositions(p, FetchRaises)

SpecRecon == InitRecon /\ [][NextRecon]_vars

----------------------------------------------------------------------------
(* reconcile_with_broker called again on the same state and RiskManager, the
   venue holding what it held. *)

MaxPasses == 2

\* result = reconcile_with_broker(config, broker, state, risk_manager), once
\* more: the pass that is over is kept for comparison.
ReconcileAgain(p) ==
    /\ pc[p] = "reconciled"
    /\ Len(recon[p].earlier) + 1 < MaxPasses
    /\ recon' = [recon EXCEPT ![p].earlier =
                    Append(@, [ orders_raised |-> recon[p].orders_raised,
                                positions_raised |-> recon[p].positions_raised,
                                result |-> recon[p].result ])]
    /\ pc' = [pc EXCEPT ![p] = "reconcile_orders"]
    /\ UNCHANGED <<cycle, durable, session, risk, config, file, venue, orders_csv,
                   fills_csv, trades_csv, state, rm, call, prev>>

NextAgain ==
    \E p \in Lineage :
        \/ ReconcileOrders(p, FetchRaises)
        \/ ReconcilePositions(p, FetchRaises)
        \/ ReconcileAgain(p)

SpecAgain == InitRecon /\ [][NextAgain]_vars

----------------------------------------------------------------------------
(* submit_signal_order called on any state, against any venue, in any mode. *)

CallConfigs ==
    { LimitConfig, MarketConfig, DryRunConfig,
      [LimitConfig EXCEPT !.dry_run = TRUE], [MarketConfig EXCEPT !.dry_run = TRUE] }

\* The venue untouched, and after it took a buy that it filled or left open.
CallVenues ==
    { EmptyVenue,
      VenueHolding(<<FilledOrder(1, "AAPL", "buy")>>,
                   [s \in {"AAPL"} |-> <<10, D(100)>>]),
      VenueHolding(<<PendingOrder(1, "AAPL", "buy")>>, EmptyMap) }

CallLocalKeys == SUBSET {KeyOf("AAPL", "buy")}

\* Daily PnL the risk manager was built with: none, a loss equal to the limit
\* of the configurations, and a larger one.
CallDailyPnl == {D(0), D(-1), Rat(-3, 2)}

InitCallWith(configs) ==
    /\ config \in configs
    /\ venue \in CallVenues
    /\ orders_csv = <<>>
    /\ fills_csv = <<>>
    /\ trades_csv = <<>>
    /\ pc = [p \in Procs |-> IF p \in Lineage THEN "idle" ELSE "down"]
    /\ \E keys \in CallLocalKeys :
          state = [p \in Procs |->
                     IF p \in Lineage
                     THEN StartedState(p, [FreshState EXCEPT
                                              !.submitted_client_order_ids = keys])
                     ELSE BotState({})]
    /\ \E saved \in BOOLEAN :
          file = IF saved THEN SavedFile(state["p1"]) ELSE FileAbsent
    /\ durable = file
    /\ \E mirrored \in BOOLEAN, daily_realized_pnl \in CallDailyPnl :
          rm = [p \in Procs |->
                  IF p \in Lineage
                  THEN [RiskManager(daily_realized_pnl) EXCEPT
                           !.positions =
                               IF mirrored
                               THEN ReconciledPositions(EmptyMap, get_positions(venue))
                               ELSE EmptyMap]
                  ELSE RiskManager(D(0))]
    /\ call = [p \in Procs |-> NoCall]
    /\ prev = NoPrev
    /\ recon = [p \in Procs |-> NoReconciliation]
    /\ risk = NoRiskCall
    /\ session = NoSession
    /\ cycle = NoCycle

InitCall == InitCallWith(CallConfigs)

\* The quantities of the trading loop, and a negative one.
CallQuantities == Quantities \cup {-10}

NextCall ==
    \E p \in Lineage :
        \/ \E signal \in Signals, quantity \in CallQuantities : SubmitBegin(p, signal, quantity)
        \/ \E quote \in Quotes : GetQuote(p, quote)
        \/ BrokerSubmit(p)
        \/ WriteOrder(p)
        \/ SaveOpen(p, WriteOutcomes)
        \/ SaveDump(p, WriteOutcomes)
        \/ WriteFill(p)
        \/ WriteTrade(p)

SpecCall == InitCall /\ [][NextCall]_vars

----------------------------------------------------------------------------
(* submit_signal_order called with an adapter whose queries can fail. *)

NextFault ==
    \/ NextCall
    \/ \E p \in Lineage :
          \/ \E signal \in Signals, quantity \in CallQuantities :
                OrderExistsRaises(p, signal, quantity)
          \/ GetQuoteRaises(p)

SpecFault == InitCall /\ [][NextFault]_vars

----------------------------------------------------------------------------
(* submit_signal_order called under configurations with symbol lists. *)

\* The allowed symbol blacklisted, with and without being whitelisted too;
\* another symbol blacklisted; a whitelist alone.
EligConfigs ==
    { [LimitConfig EXCEPT !.symbol_blacklist = {"AAPL"}, !.symbol_whitelist = {"AAPL"}],
      [LimitConfig EXCEPT !.symbol_blacklist = {"AAPL"}],
      [LimitConfig EXCEPT !.symbol_blacklist = {"XYZ"}],
      [LimitConfig EXCEPT !.symbol_whitelist = {"AAPL"}] }

InitElig == InitCallWith(EligConfigs)

SpecElig == InitElig /\ [][NextCall]_vars

----------------------------------------------------------------------------
(* The trading loop of a run: iterations over the allowed symbols, the SMA
   strategy deciding on each, the pipeline on each signal. *)

\* Iterations of the trading loop in a run (--iterations).
MaxIterations == 2

\* quantity = 10: the fixed order size of the loop.
OrderQuantity == 10

\* config.allowed_symbols, in the order of the list.
LoopSymbols == <<"AAPL", "MSFT">>

\* The latest bar of a symbol: its timestamp and close.
LoopBars == [timestamp : {<<1, 0>>, <<2, 0>>}, close : {D(100)}]

\* What the two SMAs did on the latest bar.
Crossovers == {"golden", "death", "none"}

LoopConfigs ==
    { [LimitConfig EXCEPT !.allowed_symbols = {"AAPL", "MSFT"}, !.max_positions = n,
                          !.max_daily_loss = D(50)] : n \in {1, 2} }

\* The account at the venue when the first run starts: nothing, or five
\* shares of AAPL from outside the program.
LoopVenues ==
    { EmptyVenue,
      VenueHolding(<<>>, [s \in {"AAPL"} |-> <<5, D(100)>>]) }

\* SMAStrategy.generate_signals: BUY on a golden cross without a position,
\* SELL on a death cross with one, otherwise no signal.
generate_signals(symbol, bar, has_position, crossover) ==
    IF ~has_position /\ crossover = "golden"
    THEN [symbol |-> symbol, side |-> "buy", timestamp |-> bar.timestamp,
          price |-> bar.close]
    ELSE IF has_position /\ crossover = "death"
    THEN [symbol |-> symbol, side |-> "sell", timestamp |-> bar.timestamp,
          price |-> bar.close]
    ELSE NoSignal

\* A loop that gives up the iteration when the pipeline rejects a signal.
TodoAfterCall_AbortOnRejection(todo, raised, success) ==
    IF raised \/ ~success THEN <<>> ELSE todo

\* The symbols left to the iteration once the pipeline call is over: all of
\* them after a result, none after an exception (the try block encloses the
\* for loop).
TodoAfterCall(todo, raised, success) ==
    IF raised THEN <<>> ELSE todo

InitLoop ==
    /\ config \in LoopConfigs
    /\ file = FileAbsent
    /\ venue \in LoopVenues
    /\ orders_csv = <<>>
    /\ fills_csv = <<>>
    /\ trades_csv = <<>>
    /\ pc = [p \in Procs |-> "down"]
    /\ state = [p \in Procs |-> BotState({})]
    /\ rm = [p \in Procs |-> RiskManager(D(0))]
    /\ call = [p \in Procs |-> NoCall]
    /\ prev = NoPrev
    /\ recon = [p \in Procs |-> NoReconciliation]
    /\ risk = NoRiskCall
    /\ session = NoSession
    /\ cycle = NoCycle
    /\ durable = FileAbsent

\* for iteration in range(iterations): the next iteration starts on the list
\* of allowed symbols.
BeginIteration(p) ==
    /\ pc[p] = "idle"
    /\ cycle.todo = <<>>
    /\ cycle.iteration < MaxIterations
    /\ cycle' = [iteration |-> cycle.iteration + 1, todo |-> LoopSymbols,
                 done |-> <<>>, rejected |-> {}]
    /\ UNCHANGED <<config, file, venue, orders_csv, fills_csv, trades_csv,
                   pc, state, rm, call, prev, recon, durable, risk, session>>

\* for symbol in config.allowed_symbols: the next symbol is evaluated and, if
\* the strategy gives a signal, the signal goes to the pipeline.
ProcessSymbol(p, bar, crossover) ==
    /\ pc[p] = "idle"
    /\ cycle.todo # <<>>
    /\ LET symbol == Head(cycle.todo)
           has_position == symbol \in DOMAIN rm[p].positions
           signal == generate_signals(symbol, bar, has_position, crossover)
       IN  /\ cycle' = [cycle EXCEPT !.todo = Tail(@), !.done = Append(@, symbol)]
           /\ IF signal = NoSignal
              THEN UNCHANGED <<config, file, venue, orders_csv, fills_csv, trades_csv,
                               pc, state, rm, call, prev, recon, durable, risk, session>>
              ELSE SubmitBeginStep(p, signal, OrderQuantity)

\* The result is logged, a live success is saved, and the loop goes on with
\* the next symbol; an exception ends the iteration.
CycleContinue(p) ==
    /\ LoopContinueStep(p)
    /\ cycle' = [cycle EXCEPT
                    !.todo = TodoAfterCall(@, pc[p] = "raised",
                                           call[p].result.success),
                    !.rejected = IF pc[p] = "returned" /\ ~call[p].result.success
                                 THEN @ \cup {call[p].signal.symbol} ELSE @]

NextLoop ==
    \E p \in Lineage :
        \/ Start(p)
        \/ ReconcileOrders(p, FetchAnswers)
        \/ ReconcilePositions(p, FetchAnswers)
        \/ AfterReconcile(p)
        \/ BeginIteration(p)
        \/ \E bar \in LoopBars, crossover \in Crossovers : ProcessSymbol(p, bar, crossover)
        \/ \E quote \in Quotes : GetQuote(p, quote)
        \/ BrokerSubmit(p)
        \/ WriteOrder(p)
        \/ SaveOpen(p, WriteWorks)
        \/ SaveDump(p, WriteWorks)
        \/ WriteFill(p)
        \/ WriteTrade(p)
        \/ CycleContinue(p)

SpecLoop == InitLoop /\ [][NextLoop]_vars

----------------------------------------------------------------------------

(* src/app/__main__.py : the test-order commands of the command line *)

\* Symbols and quantities a --paper-test-order may name (the quantity is
\* checked to be positive, the symbol is not checked at all).
TestOrderSymbols == {"XYZ"}
TestOrderQuantities == {101}

\* f"test-{uuid.uuid4()}": a key no other order has, here numbered by the
\* order's rank at the venue.
TestOrderId(v) == <<"test", Len(v.orders) + 1>>

\* run_paper_test_order: a MARKET BUY handed straight to broker.submit_order.
PaperTestOrder(p, symbol, quantity) ==
    /\ pc[p] = "down"
    /\ Len(venue.orders) < MaxOrders
    /\ \E outcome \in {"filled", "pending"} :
          venue' = VenueAfterSubmit(venue,
                      SubmittedOrder(venue, symbol, "buy", quantity,
                                     TestOrderId(venue), "market", None, outcome))
    /\ UNCHANGED <<config, file, orders_csv, fills_csv, trades_csv, pc, state, rm,
                   call, prev, recon, durable, risk, session, cycle>>

\* run_live_test_order: one share of the first allowed symbol, LIMIT BUY a
\* cent under the bid, after the notional and the exposure check of a fresh
\* RiskManager, handed straight to broker.submit_order.
LiveTestOrder(p, quote) ==
    /\ pc[p] = "down"
    /\ Len(venue.orders) < MaxOrders
    /\ RLt(D(0), quote[1])
    /\ LET limit_price == RSub(quote[1], Rat(1, 100))
       IN  /\ check_order_notional(config, 1, limit_price).passed
           /\ check_positions_exposure(RiskManager(D(0)), config, 1, limit_price).passed
           /\ \E outcome \in {"filled", "pending"} :
                 venue' = VenueAfterSubmit(venue,
                             SubmittedOrder(venue, LoopSymbols[1], "buy", 1,
                                            TestOrderId(venue), "limit", limit_price,
                                            outcome))
    /\ UNCHANGED <<config, file, orders_csv, fills_csv, trades_csv, pc, state, rm,
                   call, prev, recon, durable, risk, session, cycle>>

\* The commands of the program that reach the venue: the trading run and the
\* two test-order commands.
NextCli ==
    \/ NextLoop
    \/ \E p \in Lineage :
          \/ \E symbol \in TestOrderSymbols, quantity \in TestOrderQuantities :
                PaperTestOrder(p, symbol, quantity)
          \/ \E quote \in Quotes : LiveTestOrder(p, quote)

SpecCli == InitLoop /\ [][NextCli]_vars

----------------------------------------------------------------------------

(* A sequence of submit_signal_order calls of one run, from empty books. *)

\* A signal of the bar of second t.
SeqSignal(symbol, side, t) ==
    [symbol |-> symbol, side |-> side, timestamp |-> <<t, 0>>, price |-> D(100)]

\* The calls of the run, in any order and any number of times: buying AAPL on
\* two bars, selling part of it or all of it, buying MSFT, selling MSFT.
SeqCalls ==
    { <<SeqSignal("AAPL", "buy", 1), 10>>, <<SeqSignal("AAPL", "buy", 2), 10>>,
      <<SeqSignal("AAPL", "sell", 1), 5>>, <<SeqSignal("AAPL", "sell", 2), 10>>,
      <<SeqSignal("MSFT", "buy", 1), 10>>, <<SeqSignal("MSFT", "sell", 1), 10>> }

\* Quotes within the spread limit.
SeqQuotes == { <<Rat(999, 10), Rat(1001, 10)>>, <<Rat(99996, 1000), Rat(100004, 1000)>> }

\* Live configurations, limit and market orders, two symbols allowed and two
\* positions, no minimum edge; the exposure limit is about the notional of two
\* orders.
SeqConfigs ==
    { [LimitConfig EXCEPT !.allowed_symbols = {"AAPL", "MSFT"}, !.max_positions = 2,
                          !.min_edge_bps = D(0),
                          !.max_positions_notional = Rat(4001, 2)],
      [MarketConfig EXCEPT !.allowed_symbols = {"AAPL", "MSFT"}, !.max_positions = 2,
                           !.max_positions_notional = D(2000)] }

\* A run that has started on an empty state file against an empty venue.
InitSeq ==
    /\ config \in SeqConfigs
    /\ file = FileAbsent
    /\ venue = EmptyVenue
    /\ orders_csv = <<>>
    /\ fills_csv = <<>>
    /\ trades_csv = <<>>
    /\ pc = [p \in Procs |-> IF p \in Lineage THEN "idle" ELSE "down"]
    /\ state = [p \in Procs |->
                  IF p \in Lineage THEN StartedState(p, FreshState) ELSE BotState({})]
    /\ rm = [p \in Procs |-> RiskManager(D(0))]
    /\ call = [p \in Procs |-> NoCall]
    /\ prev = NoPrev
    /\ recon = [p \in Procs |-> NoReconciliation]
    /\ risk = NoRiskCall
    /\ session = NoSession
    /\ cycle = NoCycle
    /\ durable = FileAbsent

NextSeq ==
    \E p \in Lineage :
        \/ \E c \in SeqCalls : SubmitBegin(p, c[1], c[2])
        \/ \E quote \in SeqQuotes : GetQuote(p, quote)
        \/ BrokerSubmit(p)
        \/ WriteOrder(p)
        \/ SaveOpen(p, WriteWorks)
        \/ SaveDump(p, WriteWorks)
        \/ WriteFill(p)
        \/ WriteTrade(p)
        \/ LoopContinue(p)

SpecSeq == InitSeq /\ [][NextSeq]_vars

----------------------------------------------------------------------------

(* A RiskManager driven directly: fills reported to update_position, and the
   checks called on what they leave. *)

RiskSymbols == {"AAPL", "MSFT", "XYZ"}

RiskSignals ==
    [symbol : RiskSymbols, side : Sides, timestamp : {<<1, 0>>}, price : {D(100)}]

FillSymbols == {"AAPL", "MSFT"}
FillQuantities == {-10, -5, 10}
FillPrices == {D(95), D(100)}

ExposureQuantities == {-10, 10, 11}
ExposurePrices == {D(100)}

\* Daily PnL handed to the constructor: none, a loss just short of the limit,
\* and the limit.
InitialDailyPnl == {D(0), Rat(-4999, 100), D(-50)}

RiskConfigs ==
    { [BaseConfig EXCEPT !.allowed_symbols = {"AAPL", "MSFT"},
                         !.max_positions = n,
                         !.max_daily_loss = D(50),
                         !.max_positions_notional = D(2000)] : n \in {1, 2} }

\* No session limit, and one a single losing fill can reach exactly.
SessionLimits == {None, D(25)}

InitRisk ==
    /\ config \in RiskConfigs
    /\ file = FileAbsent
    /\ durable = FileAbsent
    /\ venue = EmptyVenue
    /\ orders_csv = <<>>
    /\ fills_csv = <<>>
    /\ trades_csv = <<>>
    /\ pc = [p \in Procs |-> "down"]
    /\ state = [p \in Procs |-> BotState({})]
    /\ \E daily_realized_pnl \in InitialDailyPnl :
          rm = [p \in Procs |->
                  IF p \in Lineage THEN RiskManager(daily_realized_pnl)
                  ELSE RiskManager(D(0))]
    /\ call = [p \in Procs |-> NoCall]
    /\ prev = NoPrev
    /\ recon = [p \in Procs |-> NoReconciliation]
    /\ risk = NoRiskCall
    /\ \E max_session_loss \in SessionLimits : session = Session(max_session_loss)
    /\ cycle = NoCycle

RiskFrame ==
    UNCHANGED <<cycle, config, file, durable, venue, orders_csv, fills_csv, trades_csv,
                pc, state, call, prev, recon>>

\* risk_manager.update_position(symbol, quantity, price)
UpdatePosition(p, symbol, quantity, price) ==
    /\ risk.updates < MaxUpdates
    /\ rm' = [rm EXCEPT ![p] = update_position(@, symbol, quantity, price)]
    /\ risk' = [NoRiskCall EXCEPT !.op = "update_position", !.symbol = symbol,
                            !.quantity = quantity, !.price = price,
                            !.before = rm[p], !.updates = risk.updates + 1]
    /\ session' = SessionAfterFill(session, rm[p], rm'[p])
    /\ RiskFrame

\* risk_manager.check_signal(signal)
CheckSignal(p, signal) ==
    /\ risk' = [NoRiskCall EXCEPT !.op = "check_signal", !.signal = signal,
                            !.before = rm[p], !.updates = risk.updates,
                            !.result = check_signal_session(rm[p], config,
                                                            session, signal)]
    /\ UNCHANGED <<rm, session>>
    /\ RiskFrame

\* risk_manager.check_positions_exposure(new_order_quantity, new_order_price)
CheckPositionsExposure(p, quantity, price) ==
    /\ risk' = [NoRiskCall EXCEPT !.op = "check_positions_exposure",
                            !.quantity = quantity, !.price = price,
                            !.before = rm[p], !.updates = risk.updates,
                            !.result = check_positions_exposure(rm[p], config,
                                                                quantity, price)]
    /\ UNCHANGED <<rm, session>>
    /\ RiskFrame

NextRisk ==
    \E p \in Lineage :
        \/ \E symbol \in FillSymbols, quantity \in FillQuantities, price \in FillPrices :
              UpdatePosition(p, symbol, quantity, price)
        \/ \E signal \in RiskSignals : CheckSignal(p, signal)
        \/ \E quantity \in ExposureQuantities, price \in ExposurePrices :
              CheckPositionsExposure(p, quantity, price)

SpecRisk == InitRisk /\ [][NextRisk]_vars

----------------------------------------------------------------------------
(* Vocabulary of the properties. *)

Returned(p) == pc[p] = "returned"

LiveSuccess(p) ==
    Returned(p) /\ call[p].result.success /\ call[p].result.has_order

KeysOf(p) == state[p].submitted_client_order_ids

\* The keys a load_state of the file as it is now would give.
FileKeys == load_state(file).submitted_client_order_ids

VenueOrdersFor(client_order_id) ==
    {i \in DOMAIN venue.orders : venue.orders[i].client_order_id = client_order_id}

VenueKeys == {venue.orders[i].client_order_id : i \in DOMAIN venue.orders}

\* The audit sinks are as they were when the call started.
SinksUntouched(c) ==
    /\ orders_csv = c.pre.orders_csv
    /\ fills_csv = c.pre.fills_csv
    /\ trades_csv = c.pre.trades_csv

DuplicateInState == <<"Duplicate order", "already in state">>
DuplicateInBroker == <<"Duplicate order", "already in broker">>

----------------------------------------------------------------------------
(* Idempotent submission. *)

\* C1, as the specification states it: whenever the pipeline has been called
\* twice for the same signal, with the persisted state kept or reloaded in
\* between, the second call returns a duplicate rejection, the state holds the
\* key, and the venue was asked exactly once (by the first call).
C1_AnyRepeatIsDuplicate ==
    \A p \in Procs :
        LET c == call[p]
        IN  ( /\ Returned(p)
              /\ c.first.client_order_id = c.client_order_id
              /\ c.pre.file.kind = "json"
              /\ c.pre.file.data.submitted_client_order_ids = c.pre.keys )
            => /\ ~c.result.success
               /\ c.result.reason[1] = "Duplicate order"
               /\ c.client_order_id \in KeysOf(p)
               /\ c.submits = 0
               /\ Cardinality(VenueOrdersFor(c.client_order_id)) = 1

\* C1, amended: when the first call for a signal returned a live success and
\* the state it persisted is kept in memory or reloaded, the second call for
\* the same signal returns the duplicate rejection "already in state" without
\* asking the venue, the state holds the key, and the venue holds exactly one
\* order for it; the first call asked the venue exactly once.
C1_RepeatAfterSuccessIsDuplicate ==
    \A p \in Procs :
        LET c == call[p]
        IN  /\ LiveSuccess(p) => c.submits = 1
            /\ ( /\ Returned(p)
                 /\ c.first.client_order_id = c.client_order_id
                 /\ c.first.live_success
                 /\ c.client_order_id \in c.pre.keys )
               => /\ ~c.result.success
                  /\ c.result.reason = DuplicateInState
                  /\ c.client_order_id \in KeysOf(p)
                  /\ c.submits = 0
                  /\ Cardinality(VenueOrdersFor(c.client_order_id)) = 1

\* The second call came after a restart that reloaded the persisted state.
C1_Witness ==
    \E p \in Procs :
        /\ Returned(p)
        /\ call[p].first.client_order_id = call[p].client_order_id
        /\ call[p].first.live_success
        /\ call[p].first.restarted
        /\ call[p].client_order_id \in call[p].pre.keys
        /\ call[p].result.reason = DuplicateInState

\* C2: whatever the calls, crashes and restarts, the venue never holds two
\* orders with the same idempotency key.
C2_AtMostOneOrderPerKey ==
    \A i, j \in DOMAIN venue.orders :
        venue.orders[i].client_order_id = venue.orders[j].client_order_id => i = j

\* A run that lost the key of an accepted order (crash before the save, or a
\* truncated file) was called again for the signal and did not resubmit.
C2_Witness ==
    \E p \in Procs :
        /\ Returned(p)
        /\ call[p].result.reason = DuplicateInBroker
        /\ call[p].client_order_id \notin call[p].pre.keys
        /\ call[p].pre.file.kind = "partial"
        /\ Cardinality(VenueOrdersFor(call[p].client_order_id)) = 1

\* C3: two instances working on the same signal at the same time: at most one
\* of them has its order accepted, and the venue holds at most one order for
\* the key.
C3_OneAcceptedAmongConcurrent ==
    /\ \A p, q \in Procs :
          ( /\ p # q
            /\ call[p].client_order_id = call[q].client_order_id
            /\ call[p].order # NoOrder )
          => call[q].order = NoOrder
    /\ \A k \in VenueKeys : Cardinality(VenueOrdersFor(k)) = 1

\* Both instances passed both duplicate checks and asked the venue; one was
\* accepted, the other got the venue's rejection.
C3_Witness ==
    \E p, q \in Procs :
        /\ p # q
        /\ call[p].client_order_id = call[q].client_order_id
        /\ call[p].submits = 1 /\ call[p].order # NoOrder
        /\ call[q].submits = 1 /\ call[q].order = NoOrder
        /\ Returned(q)
        /\ call[q].result.reason[1] = "Broker error"
        /\ pc[p] \in {"write_order", "ok_save", "ok_dump", "write_fill", "write_trade"}

\* C4: a live success is returned only with the key in the state and in the
\* state file, for an order the venue holds; and the file never holds a key
\* the venue has not accepted (the write comes after the acceptance).
C4_SuccessIsPersisted ==
    /\ \A p \in Procs :
          LiveSuccess(p)
          => /\ call[p].client_order_id \in KeysOf(p)
             /\ file.kind = "json"
             /\ call[p].client_order_id \in FileKeys
             /\ call[p].client_order_id \in VenueKeys
    /\ FileKeys \subseteq VenueKeys

\* A live success for an order the venue left open.
C4_Witness ==
    \E p \in Procs :
        /\ LiveSuccess(p)
        /\ call[p].order.status = "pending"
        /\ call[p].client_order_id \notin call[p].pre.keys

\* C5: when the key is not in the local state and the venue reports the order,
\* the call adds the key, has the state file written before it returns,
\* returns the rejection "already in broker", never calls submit_order and
\* writes no audit record.
C5_SelfHealing ==
    \A p \in Procs :
        LET c == call[p]
        IN  ( /\ Returned(p)
              /\ c.client_order_id \notin c.pre.keys
              /\ c.pre.in_broker )
            => /\ ~c.result.success
               /\ c.result.reason = DuplicateInBroker
               /\ c.client_order_id \in KeysOf(p)
               /\ file = SavedFile(state[p])
               /\ c.client_order_id \in FileKeys
               /\ c.submits = 0
               /\ SinksUntouched(c)

\* The healed key belongs to an order the venue has filled, which no
\* reconciliation would have brought back.
C5_Witness ==
    \E p \in Procs :
        /\ Returned(p)
        /\ call[p].result.reason = DuplicateInBroker
        /\ call[p].pre.file.kind = "absent"
        /\ \A i \in VenueOrdersFor(call[p].client_order_id) :
              venue.orders[i].status = "filled"

----------------------------------------------------------------------------
(* The submitted keys only grow. *)

\* C6: while a run lives, no step of the pipeline and no step of the
\* reconciliation takes a key out of its submitted-keys set, whether or not
\* the venue still reports the order as open.
C6_KeysOnlyGrow ==
    [][ \A p \in Procs :
          (pc[p] # "down" /\ pc'[p] # "down")
          => state[p].submitted_client_order_ids
                \subseteq state'[p].submitted_client_order_ids ]_vars

\* A reconciliation has just run over a state holding a key the venue no
\* longer reports as open, next to one it does report.
C6_Witness ==
    \E p \in Procs :
        /\ pc[p] = "reconcile_positions"
        /\ KeysOf(p) \ get_open_orders(venue) # {}
        /\ KeysOf(p) \cap get_open_orders(venue) # {}

----------------------------------------------------------------------------
(* The checks before the venue is asked. *)

\* The risk manager as the call found it.
RiskManagerBefore(c) == [positions |-> c.pre.positions, daily_pnl |-> c.pre.daily_pnl]

QuoteFetched(c) == c.quote # NoCall.quote

CheckOrder ==
    <<"state", "broker", "risk", "quantity", "notional", "exposure", "spread", "edge">>

\* Position in CheckOrder of the check a rejection reason belongs to, 0 for a
\* reason that is no check's.
CheckOfReason(reason) ==
    CASE reason = DuplicateInState                                   -> 1
      [] reason = DuplicateInBroker                                  -> 2
      [] reason[1] = "Risk check failed"                             -> 3
      [] reason[1] = "Quantity check failed"                         -> 4
      [] reason[1] = "Signal price is required for notional check"   -> 5
      [] reason[1] = "Notional check failed"                         -> 5
      [] reason[1] = "Exposure check failed"                         -> 6
      [] reason[1] = "Spread too wide"                               -> 7
      [] reason[1] = "Insufficient edge"                             -> 8
      [] OTHER                                                       -> 0

\* Check i, evaluated on its own against what the call started from, fails.
\* The cost checks can be evaluated only in a call that fetched a quote.
CheckFails(c, i) ==
    CASE i = 1 -> c.client_order_id \in c.pre.keys
      [] i = 2 -> c.pre.in_broker
      [] i = 3 -> ~check_signal(RiskManagerBefore(c), config, c.signal).passed
      [] i = 4 -> ~check_order_quantity(config, c.quantity).passed
      [] i = 5 -> \/ c.signal.price = None
                  \/ ~check_order_notional(config, c.quantity, c.signal.price).passed
      [] i = 6 -> /\ c.signal.price # None
                  /\ ~check_positions_exposure(RiskManagerBefore(c), config,
                                               c.quantity, c.signal.price).passed
      [] i = 7 -> /\ QuoteFetched(c)
                  /\ RLt(config.max_spread_bps, QuoteSpreadBps(c.quote))
      [] i = 8 -> /\ QuoteFetched(c)
                  /\ EdgeCheckRuns(config)
                  /\ EdgeCheckFails(config, c.quote, c.signal.side)

\* C7: a call that has invoked submit_order found the key neither in the
\* local state nor at the venue, passed the signal, quantity, notional,
\* exposure and spread checks and, with limit orders and a minimum edge
\* configured, the edge check, and ran with dry-run off.
C7_SubmitOnlyAfterAllChecks ==
    \A p \in Procs :
        LET c == call[p]
        IN  c.submits > 0
            => /\ \A i \in 1..6 : ~CheckFails(c, i)
               /\ QuoteFetched(c)
               /\ ~CheckFails(c, 7)
               /\ ~CheckFails(c, 8)
               /\ ~config.dry_run

\* submit_order was invoked for a sell under limit orders with a minimum edge,
\* with a position held.
C7_Witness ==
    \E p \in Procs :
        /\ call[p].submits > 0
        /\ EdgeCheckRuns(config)
        /\ call[p].signal.side = "sell"
        /\ call[p].pre.positions # EmptyMap

\* C8: a rejection by a check names the earliest check, in the fixed order,
\* that fails for the call; the checks evaluated are exactly those up to it;
\* submit_order was not invoked.
C8_EarliestFailingCheckWins ==
    \A p \in Procs :
        LET c == call[p]
            i == CheckOfReason(c.result.reason)
        IN  (Returned(p) /\ i > 0)
            => /\ ~c.result.success
               /\ CheckFails(c, i)
               /\ \A j \in 1..(i - 1) : ~CheckFails(c, j)
               /\ c.trace = SubSeq(CheckOrder, 1, i)
               /\ c.submits = 0

\* A signal that fails the signal-level risk check, the quantity check and the
\* notional check is rejected for the risk check.
C8_Witness ==
    \E p \in Procs :
        /\ Returned(p)
        /\ CheckOfReason(call[p].result.reason) = 3
        /\ CheckFails(call[p], 4)
        /\ CheckFails(call[p], 5)

----------------------------------------------------------------------------
(* Failures leave no trace. *)

FailureReasons ==
    { "Risk check failed", "Quantity check failed",
      "Signal price is required for notional check", "Notional check failed",
      "Exposure check failed", "Spread too wide", "Insufficient edge",
      "Broker error" }

\* C9: when a call returns a failure for a risk, quantity, notional,
\* exposure, spread, edge or broker-error reason, the submitted keys, the state
\* file, the positions, the daily PnL and the three audit sinks are what they
\* were when the call started.
C9_FailureChangesNothing ==
    \A p \in Procs :
        LET c == call[p]
        IN  (Returned(p) /\ ~c.result.success /\ c.result.reason[1] \in FailureReasons)
            => /\ KeysOf(p) = c.pre.keys
               /\ file = c.pre.file
               /\ rm[p].positions = c.pre.positions
               /\ rm[p].daily_pnl = c.pre.daily_pnl
               /\ SinksUntouched(c)

\* An exposure rejection in a run that holds a position, keys and audit records.
C9_Witness ==
    \E p \in Procs :
        /\ Returned(p)
        /\ call[p].result.reason[1] = "Exposure check failed"
        /\ call[p].pre.keys # {}
        /\ call[p].pre.positions # EmptyMap
        /\ call[p].pre.orders_csv # <<>>

\* C10: when the adapter raises in submit_order, the call returns a failure
\* with the broker-error reason after exactly one submit_order attempt, the
\* key is not in the state, and no audit record was written.
C10_BrokerErrorNoRetry ==
    \A p \in Procs :
        LET c == call[p]
        IN  /\ (Returned(p) /\ c.submits > 0 /\ c.order = NoOrder)
               => /\ ~c.result.success
                  /\ c.result.reason[1] = "Broker error"
                  /\ c.submits = 1
                  /\ c.client_order_id \notin KeysOf(p)
                  /\ SinksUntouched(c)
            /\ (Returned(p) /\ c.result.reason[1] = "Broker error")
               => c.submits = 1 /\ c.order = NoOrder

\* The adapter raised for a key the venue does not hold.
C10_Witness ==
    \E p \in Procs :
        /\ Returned(p)
        /\ call[p].result.reason[1] = "Broker error"
        /\ call[p].client_order_id \notin VenueKeys

----------------------------------------------------------------------------
(* The state file: failed saves, crashes during a save, loading. *)

\* C11: when save_state fails while submit_signal_order is persisting a key,
\* after the venue accepted the order or on the self-healing path, the error
\* leaves the call: the call ends raised with no result, and a call that did
\* return a live success or "already in broker" has written the state file
\* in full.
C11_SaveFailurePropagates ==
    \A p \in Procs :
        /\ call[p].save_failed
              => /\ pc[p] = "raised"
                 /\ ~Returned(p)
                 /\ call[p].result = NoResult
        /\ ( /\ Returned(p)
             /\ \/ LiveSuccess(p)
                \/ call[p].result.reason = DuplicateInBroker )
              => file = SavedFile(state[p])

\* The venue accepted the order, the file was opened, and json.dump failed.
C11_Witness ==
    \E p \in Procs :
        /\ pc[p] = "raised"
        /\ call[p].save_failed
        /\ call[p].order # NoOrder
        /\ VenueOrdersFor(call[p].client_order_id) # {}
        /\ file = FilePartial

\* C12, as the specification states it: save_state replaces the file in one
\* step, so once every process is down (a crash at any point, a save under way
\* included) a load returns what the last save that completed wrote, which is
\* the state before the interrupted save or the state it was saving.
C12_CrashDuringSaveKeepsState ==
    (\A p \in Procs : pc[p] = "down") => load_state(file) = load_state(durable)

\* C13: load_state never raises, and from an absent, truncated, unreadable or
\* corrupt file it returns a fresh state: run id "initial", no submitted
\* keys, no PnL history, and today as the trading day.
C13_LoadNeverRaises ==
    \A p \in Procs :
        /\ pc[p] # "load_raised"
        /\ (pc[p] = "loaded" /\ file.kind # "json")
              => /\ state[p].run_id = "initial"
                 /\ state[p].submitted_client_order_ids = {}
                 /\ state[p].daily_realized_pnl = EmptyMap
                 /\ state[p].daily_date = Today

\* A corrupt file was loaded.
C13_Witness ==
    \E p \in Procs : pc[p] = "loaded" /\ file.kind = "corrupt"

----------------------------------------------------------------------------
(* Dry-run. *)

\* Every check of the pipeline, evaluated on its own against what the call
\* started from, passes.
AllChecksPass(c) ==
    /\ \A i \in 1..6 : ~CheckFails(c, i)
    /\ QuoteFetched(c)
    /\ ~CheckFails(c, 7)
    /\ ~CheckFails(c, 8)

\* C14: with dry-run on, a call whose signal passes every check returns a
\* success that carries no order; the venue was not asked and holds no order
\* for the key, no order, fill or trade record was written, and the submitted
\* keys, the positions and the state file are as they were.
C14_DryRunPassLeavesNoTrace ==
    \A p \in Procs :
        LET c == call[p]
        IN  (config.dry_run /\ Returned(p) /\ AllChecksPass(c))
            => /\ c.result.success
               /\ ~c.result.has_order
               /\ c.result.reason = <<"Dry-run", "order would have been submitted">>
               /\ c.order = NoOrder
               /\ c.submits = 0
               /\ VenueOrdersFor(c.client_order_id) = {}
               /\ SinksUntouched(c)
               /\ KeysOf(p) = c.pre.keys
               /\ rm[p].positions = c.pre.positions
               /\ file = c.pre.file

\* A dry-run call passed every check, from a state that holds a position and
\* a saved file.
C14_Witness ==
    \E p \in Procs :
        /\ config.dry_run
        /\ Returned(p)
        /\ AllChecksPass(call[p])
        /\ call[p].result.success
        /\ call[p].pre.positions # EmptyMap
        /\ call[p].pre.file.kind = "json"

\* C15, as the specification states it: with dry-run on, a call, whatever it
\* returns (the success or any rejection), has added no key to the
\* submitted keys and has not written the state file.
C15_DryRunNeverPersists ==
    \A p \in Procs :
        (config.dry_run /\ Returned(p))
            => /\ KeysOf(p) = call[p].pre.keys
               /\ file = call[p].pre.file

\* Position in CheckOrder of the first check that fails, 0 when none does.
FirstFailingCheck(c) ==
    IF \E i \in 1..8 : CheckFails(c, i)
    THEN CHOOSE i \in 1..8 : CheckFails(c, i) /\ \A j \in 1..(i - 1) : ~CheckFails(c, j)
    ELSE 0

\* The call got as far as the submission: in dry-run it returned the success,
\* live it invoked submit_order.
ReachedSubmission(c) ==
    IF config.dry_run THEN c.result.success ELSE c.submits > 0

\* C16: for the same signal, quantity, limits and state, a dry-run call
\* returns the success exactly when a live call passes every check and
\* reaches the submission, and when a check fails both return the rejection
\* of the first failing check: in either mode the call reaches the submission
\* exactly when every check, evaluated on what the call started from, passes,
\* and otherwise is rejected for the first check that fails.
C16_DryRunMirrorsLive ==
    \A p \in Procs :
        LET c == call[p]
        IN  Returned(p)
            => /\ ReachedSubmission(c) <=> AllChecksPass(c)
               /\ ~ReachedSubmission(c)
                     => /\ ~c.result.success
                        /\ FirstFailingCheck(c) # 0
                        /\ CheckOfReason(c.result.reason) = FirstFailingCheck(c)

\* A dry-run call was rejected by a cost check, after the quote was fetched.
C16_Witness ==
    \E p \in Procs :
        /\ config.dry_run
        /\ Returned(p)
        /\ QuoteFetched(call[p])
        /\ call[p].result.reason[1] = "Spread too wide"

----------------------------------------------------------------------------
(* Reconciliation. *)

\* The order sync of the pass of p is over.
OrderSyncOver(p) == pc[p] \in {"reconcile_positions", "reconciled"}

\* The position sync, and with it the pass of p, is over.
PositionSyncOver(p) == pc[p] = "reconciled"

\* The submitted keys are the union of those before the pass and the venue's
\* open orders, and the counts of the order sync say so.
OrdersMerged(p) ==
    LET open == {k \in VenueKeys : \E i \in VenueOrdersFor(k) :
                                      venue.orders[i].status = "pending"}
    IN  /\ \A k \in KeysOf(p) : k \in recon[p].keys_before \/ k \in open
        /\ \A k \in recon[p].keys_before : k \in KeysOf(p)
        /\ \A k \in open : k \in KeysOf(p)
        /\ recon[p].result.broker_open_orders_count = Cardinality(open)
        /\ recon[p].result.local_orders_added =
              Cardinality({k \in open : k \notin recon[p].keys_before})

\* The local positions are the venue's, and the counts of the position sync
\* say what the sync did.
PositionsMirrored(p) ==
    LET local == rm[p].positions
        before == recon[p].positions_before
        theirs == venue.positions
        same(s) == /\ before[s].quantity = theirs[s][1]
                   /\ before[s].avg_price = theirs[s][2]
    IN  /\ DOMAIN local = DOMAIN theirs
        /\ \A s \in DOMAIN theirs :
              /\ local[s].quantity = theirs[s][1]
              /\ local[s].avg_price = theirs[s][2]
        /\ recon[p].result.broker_positions_count = Cardinality(DOMAIN theirs)
        /\ recon[p].result.positions_added =
              Cardinality({s \in DOMAIN theirs : s \notin DOMAIN before})
        /\ recon[p].result.positions_synced =
              Cardinality({s \in DOMAIN theirs : s \in DOMAIN before /\ ~same(s)})
        /\ recon[p].result.positions_removed =
              Cardinality({s \in DOMAIN before : s \notin DOMAIN theirs})

\* C17: once the order sync of a pass is over and get_open_orders answered,
\* the submitted keys are exactly the keys held before the pass together with
\* the venue's open orders, and local_orders_added is the number of open
\* orders of the venue that were not held before.
C17_OrderSyncIsUnion ==
    \A p \in Procs :
        (OrderSyncOver(p) /\ ~recon[p].orders_raised) => OrdersMerged(p)

\* Two keys were held, the venue has two open orders, one of them held: one
\* key is added and three are held.
C17_Witness ==
    \E p \in Procs :
        /\ OrderSyncOver(p)
        /\ ~recon[p].orders_raised
        /\ Cardinality(recon[p].keys_before) = 2
        /\ recon[p].result.broker_open_orders_count = 2
        /\ recon[p].result.local_orders_added = 1
        /\ Cardinality(KeysOf(p)) = 3

\* C18: once the position sync is over and get_positions answered, the local
\* positions are exactly the venue's (same symbols, the venue's quantity and
\* average price); positions_added counts the symbols only the venue had,
\* positions_synced those both had with a different quantity or price,
\* positions_removed those only the local side had, and a symbol that
\* matched is counted nowhere.
C18_PositionSyncMirrorsVenue ==
    \A p \in Procs :
        (PositionSyncOver(p) /\ ~recon[p].positions_raised)
            => /\ PositionsMirrored(p)
               /\ recon[p].result.positions_added + recon[p].result.positions_synced
                     <= recon[p].result.broker_positions_count

\* Local AAPL and GOOGL against the venue's AAPL (matching) and MSFT: one
\* added, one removed, none synced.
C18_Witness ==
    \E p \in Procs :
        /\ PositionSyncOver(p)
        /\ ~recon[p].positions_raised
        /\ DOMAIN recon[p].positions_before = {"AAPL", "GOOGL"}
        /\ DOMAIN rm[p].positions = {"AAPL", "MSFT"}
        /\ recon[p].result.positions_added = 1
        /\ recon[p].result.positions_removed = 1
        /\ recon[p].result.positions_synced = 0

\* C19: when the adapter raised in one of the two syncs, the pass still ends;
\* the counts of the sync that raised are zero and what it works on is
\* untouched, and the other sync ran with its normal effect.
C19_RaisedSyncLeavesTheOther ==
    \A p \in Procs :
        /\ (OrderSyncOver(p) /\ recon[p].orders_raised)
              => /\ recon[p].result.broker_open_orders_count = 0
                 /\ recon[p].result.local_orders_added = 0
                 /\ KeysOf(p) = recon[p].keys_before
        /\ (PositionSyncOver(p) /\ recon[p].positions_raised)
              => /\ recon[p].result.broker_positions_count = 0
                 /\ recon[p].result.positions_synced = 0
                 /\ recon[p].result.positions_added = 0
                 /\ recon[p].result.positions_removed = 0
                 /\ rm[p].positions = recon[p].positions_before
        /\ (PositionSyncOver(p) /\ recon[p].orders_raised /\ ~recon[p].positions_raised)
              => PositionsMirrored(p)
        /\ (PositionSyncOver(p) /\ recon[p].positions_raised /\ ~recon[p].orders_raised)
              => OrdersMerged(p)

\* The order fetch raised and the position sync that followed changed the
\* local positions.
C19_Witness ==
    \E p \in Procs :
        /\ PositionSyncOver(p)
        /\ recon[p].orders_raised
        /\ ~recon[p].positions_raised
        /\ rm[p].positions # recon[p].positions_before
        /\ recon[p].result.positions_added = 1

\* C20, as the specification states it: the state file is written at the end
\* of every reconciliation pass, so when a run goes on from the pass to its
\* trading loop every key the pass merged in from the venue is in the file.
C20_ReconciliationIsSaved ==
    \A p \in Procs :
        (pc[p] = "idle" /\ recon[p].done)
            => \A k \in recon[p].broker_open_orders : k \in FileKeys

----------------------------------------------------------------------------
(* Risk limits. *)

\* The rational a is at most minus the rational b.
AtOrBelowMinus(a, b) == a[1] * b[2] <= (0 - b[1]) * a[2]

\* C21: when the daily realized PnL of the risk manager is at or below minus
\* max_daily_loss (the limit itself included), a call for any signal, BUY or
\* SELL, is rejected, submit_order is not invoked, and a call that got past
\* the two duplicate checks is rejected by the signal check.
C21_DailyLossBlocksEverySignal ==
    \A p \in Procs :
        LET c == call[p]
        IN  (Returned(p) /\ AtOrBelowMinus(c.pre.daily_pnl, config.max_daily_loss))
            => /\ ~c.result.success
               /\ c.submits = 0
               /\ c.order = NoOrder
               /\ (~CheckFails(c, 1) /\ ~CheckFails(c, 2))
                     => c.result.reason[1] = "Risk check failed"

\* A SELL of an allowed symbol was rejected with the daily PnL exactly at
\* the limit.
C21_Witness ==
    \E p \in Procs :
        /\ Returned(p)
        /\ call[p].pre.daily_pnl = RNeg(config.max_daily_loss)
        /\ call[p].signal.side = "sell"
        /\ call[p].signal.symbol \in config.allowed_symbols
        /\ call[p].result.reason = <<"Risk check failed", "Daily loss limit exceeded">>

\* The daily PnL a run started now, on the same trading day, would hand to
\* its risk manager: get_daily_realized_pnl of the state it loads.
DailyPnlAfterRestart ==
    RiskManager(get_daily_realized_pnl(load_state(file), Today)).daily_pnl

\* C22, as the specification states it: the PnL realized by the fills of a
\* run is carried into the persisted state, so between two calls of the
\* pipeline a restart on the same trading day would give the risk manager
\* the daily PnL the running one has, and a kill switch that has tripped
\* would still be tripped.
C22_DailyLossSurvivesRestart ==
    \A p \in Procs :
        pc[p] = "idle" => DailyPnlAfterRestart = rm[p].daily_pnl

C24_SessionLossBlocksEverySignal ==
    /\ risk.updates = 0 => session.session_pnl = D(0)
    /\ ( /\ risk.op = "check_signal"
         /\ session.max_session_loss # None
         /\ AtOrBelowMinus(session.session_pnl, session.max_session_loss) )
          => ~risk.result.passed

\* A signal that passes the allowlist, the position limit and the daily kill
\* switch was rejected with the session PnL exactly at the limit.
C24_Witness ==
    /\ risk.op = "check_signal"
    /\ session.max_session_loss # None
    /\ session.session_pnl = RNeg(session.max_session_loss)
    /\ check_signal(risk.before, config, risk.signal).passed
    /\ risk.result = RiskCheckResult(FALSE, "Session loss limit exceeded")

\* C25: a signal whose symbol is on the blacklist is never submitted to the
\* venue and its call is rejected, also when the symbol is on the whitelist;
\* a call that got past the two duplicate checks is rejected for the
\* blacklist.
C25_BlacklistAlwaysBlocks ==
    \A p \in Procs :
        LET c == call[p]
        IN  c.signal.symbol \in config.symbol_blacklist
            => /\ c.submits = 0
               /\ c.order = NoOrder
               /\ Returned(p)
                     => /\ ~c.result.success
                        /\ (~CheckFails(c, 1) /\ ~CheckFails(c, 2))
                              => c.result.reason = <<"Symbol not eligible", "in blacklist">>

\* A call for a symbol that is allowed, whitelisted and blacklisted was
\* rejected for the blacklist.
C25_Witness ==
    \E p \in Procs :
        /\ Returned(p)
        /\ call[p].signal.symbol \in config.symbol_blacklist
        /\ call[p].signal.symbol \in config.symbol_whitelist
        /\ call[p].signal.symbol \in config.allowed_symbols
        /\ call[p].result.reason = <<"Symbol not eligible", "in blacklist">>

\* The signal-level check that has just answered, and what it was asked.
SignalChecked == risk.op = "check_signal"
AtMaxPositions == Cardinality(DOMAIN risk.before.positions) >= config.max_positions
StoppedByMaxPositions == risk.result.reason = "Max positions reached"

\* C28 as stated: the position limit never rejects a SELL signal nor a BUY
\* signal for a symbol already held, and rejects a BUY signal for a symbol not
\* held when the open positions have reached max_positions.
C28_MaxPositionsSparesHeldSymbols ==
    SignalChecked =>
        /\ risk.signal.side = "sell" => ~StoppedByMaxPositions
        /\ (risk.signal.side = "buy" /\ risk.signal.symbol \in DOMAIN risk.before.positions)
              => ~StoppedByMaxPositions
        /\ ( /\ risk.signal.side = "buy"
             /\ risk.signal.symbol \in config.allowed_symbols
             /\ risk.signal.symbol \notin DOMAIN risk.before.positions
             /\ AtMaxPositions )
              => StoppedByMaxPositions

\* C28 amended: the position limit rejects exactly the BUY signals for an
\* allowed symbol asked while the open positions have reached max_positions,
\* whether the symbol is already held or not; it never rejects a SELL signal.
C28_MaxPositionsStopsEveryBuy ==
    SignalChecked =>
        ( StoppedByMaxPositions
            <=> /\ risk.signal.side = "buy"
                /\ risk.signal.symbol \in config.allowed_symbols
                /\ AtMaxPositions )

\* A BUY signal for a symbol already held was rejected by the position limit.
C28_Witness ==
    /\ SignalChecked
    /\ risk.signal.side = "buy"
    /\ risk.signal.symbol \in DOMAIN risk.before.positions
    /\ AtMaxPositions
    /\ ~risk.result.passed
    /\ StoppedByMaxPositions

----------------------------------------------------------------------------
(* Positions and realized PnL. *)

\* The fill the RiskManager has just been told of, and the position it met.
FillApplied == risk.op = "update_position"
FillMetPosition == risk.symbol \in DOMAIN risk.before.positions
PositionMet == risk.before.positions[risk.symbol]
RealizedByFill == RSub(rm["p1"].daily_pnl, risk.before.daily_pnl)
SameAmount(a, b) == a[1] * b[2] = b[1] * a[2]

\* C26: after any sequence of update_position calls from an empty map every
\* position held has a strictly positive quantity, and a position whose
\* quantity came back to zero is no longer in the map.
C26_PositionsStrictlyPositive ==
    /\ \A symbol \in DOMAIN rm["p1"].positions :
           rm["p1"].positions[symbol].quantity > 0
    /\ ( /\ FillApplied
         /\ FillMetPosition
         /\ PositionMet.quantity + risk.quantity = 0 )
          => risk.symbol \notin DOMAIN rm["p1"].positions

\* A fill sold the whole of a position and the position is gone, another one
\* still being held.
C26_Witness ==
    /\ FillApplied
    /\ FillMetPosition
    /\ PositionMet.quantity + risk.quantity = 0
    /\ risk.symbol \notin DOMAIN rm["p1"].positions
    /\ DOMAIN rm["p1"].positions # {}

\* C27: a SELL fill that reduces or closes a long position adds exactly
\* (fill price - average entry price) x quantity sold to the daily PnL; a
\* partial reduction leaves the average entry price as it was; a fill that
\* opens a position or adds to one leaves the daily PnL as it was.
C27_SellRealizesExactly ==
    FillApplied =>
        /\ ( /\ FillMetPosition
             /\ risk.quantity < 0
             /\ PositionMet.quantity + risk.quantity >= 0 )
              => SameAmount(RealizedByFill,
                            RMul(RSub(risk.price, PositionMet.avg_price),
                                 D(0 - risk.quantity)))
        /\ ( /\ FillMetPosition
             /\ risk.quantity < 0
             /\ PositionMet.quantity + risk.quantity > 0 )
              => /\ risk.symbol \in DOMAIN rm["p1"].positions
                 /\ rm["p1"].positions[risk.symbol].quantity
                       = PositionMet.quantity + risk.quantity
                 /\ rm["p1"].positions[risk.symbol].avg_price = PositionMet.avg_price
        /\ risk.quantity > 0 => SameAmount(RealizedByFill, D(0))

\* A partial sale below the average entry price realized a loss.
C27_Witness ==
    /\ FillApplied
    /\ FillMetPosition
    /\ risk.quantity < 0
    /\ PositionMet.quantity + risk.quantity > 0
    /\ RLt(RealizedByFill, D(0))
    /\ ~SameAmount(PositionMet.avg_price, risk.price)

----------------------------------------------------------------------------
(* Exposure. *)

\* |quantity x average entry price| of the position in one symbol, zero when
\* the symbol is not held.
ExposureIn(positions, symbol) ==
    IF symbol \in DOMAIN positions
    THEN RAbs(RMul(D(positions[symbol].quantity), positions[symbol].avg_price))
    ELSE D(0)

\* The exposure check that has just answered: what was held, what was asked.
ExposureChecked == risk.op = "check_positions_exposure"
HeldExposure ==
    RAdd(ExposureIn(risk.before.positions, "AAPL"),
         ExposureIn(risk.before.positions, "MSFT"))
ExposureWithOrder ==
    RAdd(HeldExposure, RAbs(RMul(D(risk.quantity), risk.price)))

\* C30: the exposure check rejects exactly when the sum over the positions of
\* |quantity x average entry price| plus |q x price| of the new order is
\* greater than max_positions_notional; a total equal to the limit passes.
C30_ExposureRejectsOnlyAbove ==
    ExposureChecked =>
        /\ DOMAIN risk.before.positions \subseteq {"AAPL", "MSFT"}
        /\ ~risk.result.passed <=> RLt(config.max_positions_notional, ExposureWithOrder)

\* An order that brings the exposure, positions held included, exactly to the
\* limit has passed.
C30_Witness ==
    /\ ExposureChecked
    /\ risk.result.passed
    /\ RLt(D(0), HeldExposure)
    /\ SameAmount(ExposureWithOrder, config.max_positions_notional)

----------------------------------------------------------------------------
(* Order shape. *)

\* |q x signal price| of a call whose signal carries a price.
OrderNotional(c) == RAbs(RMul(D(c.quantity), c.signal.price))

\* C29: every order the pipeline submits to the venue has a quantity q with
\* 0 < q <= max_order_quantity and a notional |q x signal price| of at most
\* max_order_notional, a notional equal to the limit being allowed; a call
\* with a zero or negative quantity is always rejected and submits nothing.
C29_SubmittedOrdersAreInShape ==
    \A p \in Procs :
        LET c == call[p]
        IN  /\ c.submits > 0
               => /\ c.quantity \in Nat
                  /\ 0 < c.quantity
                  /\ c.quantity <= config.max_order_quantity
                  /\ c.signal.price # None
                  /\ RLe(OrderNotional(c), config.max_order_notional)
                  /\ c.order # NoOrder => c.order.quantity = c.quantity
            /\ c.quantity <= 0
               => /\ c.submits = 0
                  /\ c.order = NoOrder
                  /\ Returned(p) => ~c.result.success

\* An order whose notional is exactly max_order_notional was submitted.
C29_Witness ==
    \E p \in Procs :
        /\ call[p].submits > 0
        /\ call[p].order # NoOrder
        /\ call[p].signal.price # None
        /\ SameAmount(OrderNotional(call[p]), config.max_order_notional)

----------------------------------------------------------------------------
(* Cost controls. *)

\* The spread of a call's quote in basis points, (ask - bid) / mid x 10000,
\* against the limit, compared without dividing: the quotes have a positive mid.
SpreadAboveLimit(c) ==
    RLt(RMul(config.max_spread_bps, RAdd(c.quote[1], c.quote[2])),
        RMul(D(20000), RSub(c.quote[2], c.quote[1])))

\* C31: a call whose freshly fetched quote has a spread in basis points above
\* max_spread_bps submits no order and is rejected with the spread reason; a
\* spread equal to the limit is not rejected for the spread.
C31_WideSpreadBlocksSubmission ==
    \A p \in Procs :
        LET c == call[p]
        IN  QuoteFetched(c)
            => /\ SpreadAboveLimit(c)
                  => /\ c.submits = 0
                     /\ c.order = NoOrder
                     /\ Returned(p)
                     /\ ~c.result.success
                     /\ c.result.reason[1] = "Spread too wide"
               /\ (~SpreadAboveLimit(c) /\ Returned(p))
                  => c.result.reason[1] # "Spread too wide"

\* A quote with a spread above the limit was fetched and the call rejected.
C31_Witness ==
    \E p \in Procs :
        /\ QuoteFetched(call[p])
        /\ SpreadAboveLimit(call[p])
        /\ Returned(p)
        /\ call[p].result.reason[1] = "Spread too wide"

----------------------------------------------------------------------------
(* The records of a filled order. *)

\* A live call returned the success of an order the venue reported filled.
FilledSuccess(p) ==
    /\ LiveSuccess(p)
    /\ call[p].order.status = "filled"

\* The quantity of a call, signed by the side of its signal.
SignedQuantity(c) == IF c.signal.side = "buy" THEN c.quantity ELSE 0 - c.quantity

\* C32: a live call whose order the venue accepted and reported filled has
\* written exactly one order record, one fill record and one trade record,
\* has added the key to the state and to the state file, and has applied
\* update_position exactly once, with +quantity for a BUY and -quantity for a
\* SELL, at the fill price.
C32_FilledOrderIsRecordedOnce ==
    \A p \in Procs :
        LET c == call[p]
        IN  FilledSuccess(p)
            => /\ orders_csv = Append(c.pre.orders_csv, c.client_order_id)
               /\ fills_csv = Append(c.pre.fills_csv, c.client_order_id)
               /\ trades_csv = Append(c.pre.trades_csv, c.client_order_id)
               /\ c.client_order_id \in KeysOf(p)
               /\ c.client_order_id \in FileKeys
               /\ c.submits = 1
               /\ rm[p] = update_position(RiskManagerBefore(c), c.signal.symbol,
                                          SignedQuantity(c), c.order.filled_price)

\* A filled SELL closed the position held.
C32_Witness ==
    \E p \in Procs :
        /\ FilledSuccess(p)
        /\ call[p].signal.side = "sell"
        /\ call[p].signal.symbol \in DOMAIN call[p].pre.positions
        /\ call[p].signal.symbol \notin DOMAIN rm[p].positions

----------------------------------------------------------------------------
(* The trading loop. *)

----------------------------------------------------------------------------
(* The single entry point. *)

\* The keys submit_signal_order builds.
PipelineKeys ==
    { build_client_order_id(symbol, side, bar.timestamp, StrategyName) :
          symbol \in {LoopSymbols[i] : i \in DOMAIN LoopSymbols}, side \in Sides,
          bar \in LoopBars }

\* C34: every order at the venue got there through submit_signal_order: it
\* carries a key the pipeline built, is recorded in the order audit sink, is
\* for an allowed symbol and has a quantity within max_order_quantity.
C34_OnlyThePipelineSubmits ==
    \A i \in DOMAIN venue.orders :
        LET order == venue.orders[i]
        IN  /\ order.client_order_id \in PipelineKeys
            /\ order.symbol \in config.allowed_symbols
            /\ order.quantity <= config.max_order_quantity
            /\ (\A p \in Procs : pc[p] \in {"down", "idle"})
                  => \E j \in DOMAIN orders_csv : orders_csv[j] = order.client_order_id

----------------------------------------------------------------------------
(* Long only. *)

----------------------------------------------------------------------------
(* The books after a sequence of submissions. *)

\* No submit_signal_order call is under way.
BetweenCalls(p) == pc[p] \in {"idle", "returned", "loop_save", "loop_dump"}

\* Sum over the positions of a RiskManager of |quantity x average entry price|.
TotalExposure(r) ==
    RAdd(ExposureIn(r.positions, "AAPL"), ExposureIn(r.positions, "MSFT"))

----------------------------------------------------------------------------
(* Fills the RiskManager cannot book. *)

\* The fill sells a symbol that is not held, or more than is held of it.
FillOversells ==
    /\ risk.quantity < 0
    /\ \/ ~FillMetPosition
       \/ PositionMet.quantity + risk.quantity < 0

\* C39: update_position for a SELL fill of more than the long quantity held,
\* or of a symbol without a position, returns with the position map and the
\* realized daily PnL exactly as they were.
C39_OversoldFillChangesNothing ==
    (FillApplied /\ FillOversells)
        => /\ rm["p1"].positions = risk.before.positions
           /\ rm["p1"].daily_pnl = risk.before.daily_pnl

\* Ten shares sold at a price off the entry price while five are held: the
\* call returned and the five shares stand.
C39_Witness ==
    /\ FillApplied
    /\ FillMetPosition
    /\ PositionMet.quantity + risk.quantity < 0
    /\ ~SameAmount(PositionMet.avg_price, risk.price)
    /\ rm["p1"].positions[risk.symbol].quantity = 5
    /\ rm["p1"] = risk.before

----------------------------------------------------------------------------
(* Reconciliation, twice. *)

\* A second pass of p is over, the first one is on record.
SecondPassOver(p) == PositionSyncOver(p) /\ Len(recon[p].earlier) = 1

\* The venue is as it was: it answered in the second pass no query that it
\* had failed to answer in the first.
AnsweredAsBefore(p) ==
    /\ recon[p].earlier[1].orders_raised => recon[p].orders_raised
    /\ recon[p].earlier[1].positions_raised => recon[p].positions_raised

\* C38: a second reconciliation against the unchanged venue leaves the
\* submitted keys and the position map as the first one left them and reports
\* zero local_orders_added, positions_added, positions_synced and
\* positions_removed.
C38_SecondReconciliationChangesNothing ==
    \A p \in Lineage :
        (SecondPassOver(p) /\ AnsweredAsBefore(p))
        => /\ KeysOf(p) = recon[p].keys_before
           /\ rm[p].positions = recon[p].positions_before
           /\ recon[p].result.local_orders_added = 0
           /\ recon[p].result.positions_added = 0
           /\ recon[p].result.positions_synced = 0
           /\ recon[p].result.positions_removed = 0

\* The first pass added an order, synced a position and added another; the
\* second one, the venue answering both queries again, found two open orders
\* and two positions and nothing to do.
C38_Witness ==
    \E p \in Lineage :
        /\ SecondPassOver(p)
        /\ ~recon[p].orders_raised
        /\ ~recon[p].positions_raised
        /\ recon[p].earlier[1].result.local_orders_added > 0
        /\ recon[p].earlier[1].result.positions_synced > 0
        /\ recon[p].earlier[1].result.positions_added > 0
        /\ recon[p].result.broker_open_orders_count = 2
        /\ recon[p].result.broker_positions_count = 2
        /\ recon[p].result.local_orders_added = 0
        /\ recon[p].result.positions_synced = 0

----------------------------------------------------------------------------
(* Adapter queries that fail. *)

\* The order_exists query or the quote fetch of the call of p raised.
QueryRaised(p) == call[p].raised_from \in {"order_exists", "get_quote"}

\* C40: when the adapter raises from order_exists or from get_quote the
\* exception leaves submit_signal_order: no result is returned, no order was
\* submitted, no audit record written, and the submitted keys, the state file
\* and the positions are what they were when the call began.
C40_QueryErrorPropagatesCleanly ==
    \A p \in Lineage :
        LET c == call[p]
        IN  QueryRaised(p)
            => /\ pc[p] = "raised"
               /\ c.result = NoResult
               /\ c.submits = 0
               /\ c.order = NoOrder
               /\ VenueOrdersFor(c.client_order_id) # {} <=> c.pre.in_broker
               /\ SinksUntouched(c)
               /\ KeysOf(p) = c.pre.keys
               /\ file = c.pre.file
               /\ durable = c.pre.file
               /\ rm[p].positions = c.pre.positions
               /\ rm[p].daily_pnl = c.pre.daily_pnl

\* The quote fetch raised after every risk check had passed, the venue holding
\* an order from before.
C40_Witness ==
    \E p \in Lineage :
        /\ call[p].raised_from = "get_quote"
        /\ pc[p] = "raised"
        /\ Len(venue.orders) > 0
        /\ call[p].trace # <<>>

====
